---------------------------- MODULE Spec2Model ----------------------------
(***************************************************************************)
(* A model of fuzzyfields: the FuzzyField pipeline (preprocess, validate,  *)
(* postprocess), its use as a descriptor on a host class, and DictReader.  *)
(*                                                                         *)
(* Python values are records [t, s, n]: t is the type tag, s the text of a *)
(* str as a sequence of one-character strings, n the number (an int, a     *)
(* float in tenths, the truth value of a bool, the content identity of a   *)
(* list or of a bytes object).                                             *)
(***************************************************************************)
EXTENDS Integers, Sequences, FiniteSets, TLC

VARIABLES
    seen,        \* heap of seen_values sets: set id -> set of values
    fld,         \* FieldSpec: the standalone FuzzyField under test
    accepted,    \* FieldSpec: values that passed validate and postprocess
    last,        \* FieldSpec: the last parse call: raw input and outcome
    props,       \* PropSpec: class attributes of the host class: name -> field
    store,       \* PropSpec: instance.__dict__ of every instance
    override,    \* PropSpec: instance._fuzzyfield_instances of every instance
    written,     \* PropSpec: per property, the values accepted by writes
    plast,       \* PropSpec: the last descriptor call and its outcome
    tmpl,        \* PipeSpec: the class attribute fields of the DictReader subclass
    ctorf,       \* PipeSpec: the fields dict passed to constructors
    conf,        \* PipeSpec: per pipeline, the source and constructor arguments
    rd,          \* PipeSpec: per pipeline, the DictReader object and its source
    gen,         \* PipeSpec: per pipeline, the generator returned by iter()
    log,         \* PipeSpec: per pipeline, the errors dispatched by _error_handler
    yielded,     \* PipeSpec: per pipeline, the records handed to the caller
    drawn,       \* PipeSpec: per pipeline, what became of every record drawn
    tlast,       \* PipeSpec: the last parse called on a class-level field
    objs,        \* CopySpec: the FuzzyField objects, the original and its copies
    clast,       \* CopySpec: the last call (copy or parse) and the heap before it
    norm,        \* NormSpec: the last preprocess call: input and output
    dom,         \* DomainSpec: the Domain under test and its choices collection
    dlast        \* DomainSpec: the last call on the Domain or its collection

fieldOnly == <<fld, accepted, last>>
propOnly == <<props, store, override, written, plast>>
pipeOnly == <<tmpl, ctorf, conf, rd, gen, log, yielded, drawn, tlast>>
copyOnly == <<objs, clast>>
normOnly == <<norm>>
domOnly == <<dom, dlast>>
restOnly == <<copyOnly, normOnly, domOnly>>
vars == <<seen, fieldOnly, propOnly, pipeOnly, restOnly>>

-----------------------------------------------------------------------------
(* Values *)

NoneV == [t |-> "none", s |-> <<>>, n |-> 0]
Str(chars) == [t |-> "str", s |-> chars, n |-> 0]
IntV(i) == [t |-> "int", s |-> <<>>, n |-> i]
BoolV(b) == [t |-> "bool", s |-> <<>>, n |-> IF b THEN 1 ELSE 0]
FloatV(tenths) == [t |-> "float", s |-> <<>>, n |-> tenths]
NanV == [t |-> "nan", s |-> <<>>, n |-> 0]
InfV(sign) == [t |-> "inf", s |-> <<>>, n |-> sign]
ListV(id) == [t |-> "list", s |-> <<>>, n |-> id]
BytesV(id) == [t |-> "bytes", s |-> <<>>, n |-> id]

IsStr(v) == v.t = "str"
IsInt(v) == v.t \in {"int", "bool"}
IsNumber(v) == v.t \in {"int", "bool", "float"}
Hashable(v) == v.t # "list"

\* the numeric value in tenths of an int, bool or finite float
Tenths(v) == IF v.t = "float" THEN v.n ELSE v.n * 10

\* == of two hashable values, as used by set and dict membership
PyEq(a, b) ==
    IF IsNumber(a) /\ IsNumber(b) THEN Tenths(a) = Tenths(b)
    ELSE a.t # "nan" /\ a = b

PyIn(v, S) == \E w \in S : PyEq(v, w)

\* pickle.dumps of an unhashable value: bytes that identify its content
Pickle(v) == BytesV(v.n)

-----------------------------------------------------------------------------
(* Text *)

LowerAlpha == <<"a","b","c","d","e","f","g","h","i","j","k","l","m",
                "n","o","p","q","r","s","t","u","v","w","x","y","z">>
UpperAlpha == <<"A","B","C","D","E","F","G","H","I","J","K","L","M",
                "N","O","P","Q","R","S","T","U","V","W","X","Y","Z">>
Whitespace == {" ", "\t", "\r", "\n"}
Digits == {"0","1","2","3","4","5","6","7","8","9"}

UpperChar(c) ==
    IF \E i \in 1..Len(LowerAlpha) : LowerAlpha[i] = c
    THEN UpperAlpha[CHOOSE i \in 1..Len(LowerAlpha) : LowerAlpha[i] = c]
    ELSE c
LowerChar(c) ==
    IF \E i \in 1..Len(UpperAlpha) : UpperAlpha[i] = c
    THEN LowerAlpha[CHOOSE i \in 1..Len(UpperAlpha) : UpperAlpha[i] = c]
    ELSE c
Upper(s) == [i \in 1..Len(s) |-> UpperChar(s[i])]
Lower(s) == [i \in 1..Len(s) |-> LowerChar(s[i])]

\* v bound to a name inside F: With(v, LAMBDA x : e) is LET x == v IN e
With(v, F(_)) == CHOOSE r \in {F(x) : x \in {v}} : TRUE

\* str.strip()
Strip(s) ==
    With({i \in 1..Len(s) : s[i] \notin Whitespace}, LAMBDA keep :
        IF keep = {} THEN <<>>
        ELSE SubSeq(s, CHOOSE i \in keep : \A j \in keep : i <= j,
                       CHOOSE i \in keep : \A j \in keep : j <= i))

\* first position of character c in s, 0 when absent
Find(s, c) ==
    IF \E i \in 1..Len(s) : s[i] = c
    THEN CHOOSE i \in 1..Len(s) : s[i] = c /\ \A j \in 1..(i-1) : s[j] # c
    ELSE 0

AllDigits(s) == \A i \in 1..Len(s) : s[i] \in Digits

DigitVal(c) == CHOOSE d \in 0..9 : <<"0","1","2","3","4","5","6","7","8","9">>[d+1] = c

RECURSIVE DigitsValue(_)
DigitsValue(s) ==
    IF s = <<>> THEN 0
    ELSE DigitsValue(SubSeq(s, 1, Len(s)-1)) * 10 + DigitVal(s[Len(s)])

RECURSIVE Pow10(_)
Pow10(k) == IF k <= 0 THEN 1 ELSE 10 * Pow10(k-1)

NA_VALUES == {
    <<>>,
    <<"#","N","/","A">>,
    <<"#","N","/","A"," ","N","/","A">>,
    <<"#","N","A">>,
    <<"-","1",".","#","I","N","D">>,
    <<"-","1",".","#","Q","N","A","N">>,
    <<"-","N","a","N">>,
    <<"-","n","a","n">>,
    <<"1",".","#","I","N","D">>,
    <<"1",".","#","Q","N","A","N">>,
    <<"N","/","A">>,
    <<"N","A">>,
    <<"N","U","L","L">>,
    <<"N","a","N">>,
    <<"n","/","a">>,
    <<"n","a","n">>,
    <<"n","u","l","l">>,
    <<"N",".","A",".">>,
    <<"N",".","A">> }

\* isnull() without numpy/pandas
isnull(x) == x.t = "none" \/ x.t = "nan"

\* preprocess that looks the text up in NA_VALUES before it strips it
preprocess_LookupFirst(value) ==
    IF IsStr(value)
    THEN IF value.s \in NA_VALUES THEN NoneV ELSE Str(Strip(value.s))
    ELSE IF isnull(value) THEN NoneV ELSE value

\* FuzzyField.preprocess
preprocess(value) ==
    IF IsStr(value)
    THEN With(Strip(value.s), LAMBDA s : IF s \in NA_VALUES THEN NoneV ELSE Str(s))
    ELSE IF isnull(value) THEN NoneV ELSE value

-----------------------------------------------------------------------------
(* Outcomes of a call: a returned value, a ValidationError, or an exception *)
(* that is no ValidationError                                               *)

Ok(v) == [st |-> "ok", v |-> v, kind |-> "none"]
Err(kind, v) == [st |-> "err", v |-> v, kind |-> kind]
Crash(kind) == [st |-> "crash", v |-> NoneV, kind |-> kind]

-----------------------------------------------------------------------------
(* Numbers *)

\* s without a leading sign
Unsigned(s) == IF s # <<>> /\ s[1] \in {"+", "-"} THEN Tail(s) ELSE s
Negative(s) == s # <<>> /\ s[1] = "-"

\* int(str): an optional sign and decimal digits, surrounding blanks ignored
IntOfStr(s) ==
    With(Strip(s), LAMBDA t :
        IF Unsigned(t) # <<>> /\ AllDigits(Unsigned(t))
        THEN [ok |-> TRUE, n |-> IF Negative(t) THEN 0 - DigitsValue(Unsigned(t))
                                 ELSE DigitsValue(Unsigned(t))]
        ELSE [ok |-> FALSE, n |-> 0])

\* decimal.Decimal(str): k is "num" (sign * coef * 10^exp), "inf", "nan",
\* "snan" or "invalid" (decimal.InvalidOperation)
DecimalOfStr(s) ==
    With(Strip(s), LAMBDA t :
    With(Lower(Unsigned(t)), LAMBDA body :
    With(Find(body, "e"), LAMBDA e :
    With(IF e = 0 THEN body ELSE SubSeq(body, 1, e - 1), LAMBDA mant :
    With(IF e = 0 THEN <<>> ELSE SubSeq(body, e + 1, Len(body)), LAMBDA expo :
    With(Find(mant, "."), LAMBDA dot :
        LET sign == IF Negative(t) THEN 0 - 1 ELSE 1
            ip == IF dot = 0 THEN mant ELSE SubSeq(mant, 1, dot - 1)
            fp == IF dot = 0 THEN <<>> ELSE SubSeq(mant, dot + 1, Len(mant))
            special(k) == [k |-> k, sign |-> sign, coef |-> 0, exp |-> 0]
            payload(w) == /\ Len(body) >= Len(w) /\ SubSeq(body, 1, Len(w)) = w
                          /\ AllDigits(SubSeq(body, Len(w) + 1, Len(body)))
        IN IF payload(<<"n","a","n">>) THEN special("nan")
           ELSE IF payload(<<"s","n","a","n">>) THEN special("snan")
           ELSE IF body \in {<<"i","n","f">>, <<"i","n","f","i","n","i","t","y">>}
           THEN special("inf")
           ELSE IF /\ AllDigits(ip) /\ AllDigits(fp) /\ Len(ip) + Len(fp) > 0
                   /\ (e = 0 \/ (Unsigned(expo) # <<>> /\ AllDigits(Unsigned(expo))))
           THEN [k |-> "num", sign |-> sign, coef |-> DigitsValue(ip \o fp),
                 exp |-> (IF Negative(expo) THEN 0 - DigitsValue(Unsigned(expo))
                          ELSE DigitsValue(Unsigned(expo))) - Len(fp)]
           ELSE special("invalid")))))))

\* Integer._num_converter
IntegerNumConverter(value) ==
    IF IsInt(value) THEN Ok(value)
    ELSE IF value.t = "inf" THEN Ok(value)
    ELSE IF value.t = "float"
    THEN IF value.n % 10 = 0 THEN Ok(IntV(value.n \div 10))
         ELSE Err("MalformedFieldError", value)
    ELSE IF ~IsStr(value) THEN Err("FieldTypeError", value)
    ELSE With(IntOfStr(value.s), LAMBDA i :
         IF i.ok THEN Ok(IntV(i.n))
         ELSE With(DecimalOfStr(value.s), LAMBDA d :
              CASE d.k = "invalid" -> Err("MalformedFieldError", value)
                [] d.k = "nan" -> Crash("AssertionError")
                [] d.k = "snan" -> Crash("ValueError")
                [] d.k = "inf" -> Ok(InfV(d.sign))
                [] OTHER ->
                     IF d.exp >= 0 THEN Ok(IntV(d.sign * d.coef * Pow10(d.exp)))
                     ELSE IF d.coef % Pow10(0 - d.exp) = 0
                     THEN Ok(IntV(d.sign * (d.coef \div Pow10(0 - d.exp))))
                     ELSE Err("MalformedFieldError", value)))

\* the text cleanup at the head of Float.validate
FloatCleanup(s) ==
    With(SelectSeq(s, LAMBDA c : c # ","), LAMBDA nc :
        IF Len(nc) >= 1 /\ nc[1] = "(" /\ nc[Len(nc)] = ")"
        THEN <<"-">> \o SubSeq(nc, 2, Len(nc) - 1)
        ELSE IF /\ Len(nc) >= 2 /\ nc[1] = "-" /\ nc[2] = " "
                /\ nc[Len(nc) - 1] = " " /\ nc[Len(nc)] = "-"
        THEN <<"-">> \o SubSeq(nc, 3, Len(nc) - 2)
        ELSE nc)

\* Float.validate as inherited by Integer(): the field is built with the
\* default range (-inf, inf, bounds and zero allowed), which excludes no value
IntegerValidate(value) ==
    IntegerNumConverter(IF IsStr(value) THEN Str(FloatCleanup(value.s)) ELSE value)

-----------------------------------------------------------------------------
(* Field variants *)

\* String.validate
StringValidate(value) ==
    IF IsStr(value) THEN Ok(value) ELSE Err("FieldTypeError", value)

\* a compiled pattern is the sequence of its atoms, each a literal character
\* or the class \d; an atom matches one character
AtomMatches(a, c) == IF a = "\\d" THEN c \in Digits ELSE a = c

\* the pattern matches the text s from the character after off on
MatchAt(pat, s, off) ==
    /\ Len(s) >= off + Len(pat)
    /\ \A i \in 1..Len(pat) : AtomMatches(pat[i], s[off + i])

\* RegEx.validate that takes a match anywhere in the text (pattern.search)
RegExValidate_Search(f, value) ==
    IF ~IsStr(value) THEN Err("FieldTypeError", value)
    ELSE IF ~\E off \in 0..Len(value.s) : MatchAt(f.pattern, value.s, off)
    THEN Err("MalformedFieldError", value)
    ELSE Ok(value)

\* RegEx.validate: self.pattern.match(value) matches at the start of the text
RegExValidate(f, value) ==
    IF ~IsStr(value) THEN Err("FieldTypeError", value)
    ELSE IF ~MatchAt(f.pattern, value.s, 0) THEN Err("MalformedFieldError", value)
    ELSE Ok(value)

_BOOL_TRUE == {<<"T">>, <<"Y">>, <<"Y","E","S">>, <<"T","R","U","E">>}
_BOOL_FALSE == {<<"F">>, <<"N">>, <<"N","O">>, <<"F","A","L","S","E">>}

\* Boolean.validate
BooleanValidate(orig) ==
    With(IF IsStr(orig) THEN Str(Upper(orig.s)) ELSE orig, LAMBDA value :
        IF ~Hashable(value) THEN Err("FieldTypeError", orig)
        ELSE IF IsStr(value) /\ value.s \in _BOOL_TRUE THEN Ok(BoolV(TRUE))
        ELSE IF IsStr(value) /\ value.s \in _BOOL_FALSE THEN Ok(BoolV(FALSE))
        ELSE IF IsNumber(value) /\ Tenths(value) \in {0, 10}
        THEN Ok(BoolV(Tenths(value) = 10))
        ELSE With(IntegerValidate(value), LAMBDA num :
             IF num.st = "crash" THEN num
             ELSE IF num.st = "ok" /\ IsNumber(num.v) /\ Tenths(num.v) \in {0, 10}
             THEN Ok(BoolV(Tenths(num.v) = 10))
             ELSE IF \/ IsInt(IF num.st = "ok" THEN num.v ELSE value)
                     \/ IsStr(IF num.st = "ok" THEN num.v ELSE value)
             THEN Err("MalformedFieldError", orig)
             ELSE Err("FieldTypeError", orig)))

\* Float._num_converter: float(value). A float of the model has one decimal
\* digit; the texts given to it have no more
FloatNumConverter(value) ==
    IF IsNumber(value) THEN Ok(FloatV(Tenths(value)))
    ELSE IF value.t \in {"inf", "nan"} THEN Ok(value)
    ELSE IF value.t = "bytes" THEN Err("MalformedFieldError", value)
    ELSE IF ~IsStr(value) THEN Err("FieldTypeError", value)
    ELSE With(DecimalOfStr(value.s), LAMBDA d :
         CASE d.k = "num" ->
                  Ok(FloatV(IF d.exp + 1 >= 0 THEN d.sign * d.coef * Pow10(d.exp + 1)
                            ELSE d.sign * (d.coef \div Pow10(0 - (d.exp + 1)))))
           [] d.k = "inf" -> Ok(InfV(d.sign))
           [] d.k = "nan" -> Ok(NanV)
           [] OTHER -> Err("MalformedFieldError", value))

\* Float.validate of Float(): the default range excludes no value
FloatValidate(value) ==
    FloatNumConverter(IF IsStr(value) THEN Str(FloatCleanup(value.s)) ELSE value)

\* a decimal.Decimal of value n * 10^e
DecV(n, e) == [t |-> "decimal", s |-> <<>>, n |-> n, e |-> e]
SNanV == [t |-> "snan", s |-> <<>>, n |-> 0]

\* re.sub(r'0*$', '', s): s without the zeros at its end
RECURSIVE StripTrailingZeros(_)
StripTrailingZeros(s) ==
    IF s # <<>> /\ s[Len(s)] = "0" THEN StripTrailingZeros(SubSeq(s, 1, Len(s) - 1))
    ELSE s

\* the text cleanup of Decimal._num_converter: upper case, then the zeros at
\* the end of the mantissa (scientific notation) or of the whole text are
\* dropped when it holds a point
DecimalCleanup(s) ==
    With(Upper(s), LAMBDA value :
    With(Find(value, "E"), LAMBDA e :
        IF e # 0
        THEN With(SubSeq(value, 1, e - 1), LAMBDA mantissa :
                 (IF Find(mantissa, ".") # 0 THEN StripTrailingZeros(mantissa)
                  ELSE mantissa) \o <<"E">> \o SubSeq(value, e + 1, Len(value)))
        ELSE IF Find(value, ".") # 0 THEN StripTrailingZeros(value)
        ELSE value))

\* Decimal._num_converter: decimal.Decimal(value) after the cleanup. A float
\* of the model has one decimal digit
DecimalNumConverter(value) ==
    IF value.t = "decimal" THEN Ok(value)
    ELSE IF IsInt(value) THEN Ok(DecV(value.n, 0))
    ELSE IF value.t = "float" THEN Ok(DecV(value.n, 0 - 1))
    ELSE IF value.t \in {"inf", "nan"} THEN Ok(value)
    ELSE IF ~IsStr(value) THEN Err("FieldTypeError", value)
    ELSE With(DecimalOfStr(DecimalCleanup(value.s)), LAMBDA d :
         CASE d.k = "num" -> Ok(DecV(d.sign * d.coef, d.exp))
           [] d.k = "inf" -> Ok(InfV(d.sign))
           [] d.k = "nan" -> Ok(NanV)
           [] d.k = "snan" -> Ok(SNanV)
           [] OTHER -> Err("MalformedFieldError", value))

\* Float.validate of Decimal(): float(value) fails on a signaling NaN, and
\* the default range excludes no value
DecimalValidate(value) ==
    With(DecimalNumConverter(IF IsStr(value) THEN Str(FloatCleanup(value.s)) ELSE value),
         LAMBDA num : IF num.st = "ok" /\ num.v = SNanV THEN Crash("ValueError") ELSE num)

\* isinstance(v, (int, float, complex))
IsPyNumber(v) == v.t \in {"int", "bool", "float", "inf", "nan"}

\* d[k] = v on a dict d kept as its items in insertion order: an equal key
\* keeps its place and takes the new value
MapPut(d, k, v) ==
    IF \E i \in 1..Len(d) : PyEq(d[i].k, k)
    THEN [i \in 1..Len(d) |-> IF PyEq(d[i].k, k) THEN [k |-> d[i].k, v |-> v] ELSE d[i]]
    ELSE Append(d, [k |-> k, v |-> v])

MapHas(d, k) == \E i \in 1..Len(d) : PyEq(d[i].k, k)
MapGet(d, k) == d[CHOOSE i \in 1..Len(d) : PyEq(d[i].k, k)].v

\* the loop of Domain._parse_choices over the items of choices from the i-th on
RECURSIVE ChoicesLoop(_, _, _)
ChoicesLoop(f, i, acc) ==
    IF i > Len(f.choices.items) THEN acc
    ELSE With(f.choices.items[i], LAMBDA v :
         With(IF IsStr(v) /\ ~f.case_sensitive THEN Str(Lower(v.s)) ELSE v, LAMBDA k :
            ChoicesLoop(f, i + 1,
                [map |-> MapPut(acc.map, IF Hashable(k) THEN k ELSE Pickle(k), v),
                 numeric |-> acc.numeric \/ (~(IsStr(v) /\ ~f.case_sensitive)
                                             /\ IsPyNumber(v))])))

\* Domain._parse_choices: the field with _choices_map and _has_numeric_choices
\* rebuilt from the present items of choices
_parse_choices(f) ==
    With(ChoicesLoop(f, 1, [map |-> <<>>, numeric |-> FALSE]), LAMBDA c :
        [f EXCEPT !._choices_map = c.map, !._has_numeric_choices = c.numeric])

\* Domain.validate that never rebuilds _choices_map
DomainValidate_NoRefresh(f, value) ==
    With(IF IsStr(value) /\ ~f.case_sensitive THEN Str(Lower(value.s)) ELSE value,
         LAMBDA k :
    With(IF Hashable(k) THEN k ELSE Pickle(k), LAMBDA hk :
        IF MapHas(f._choices_map, hk) THEN Ok(MapGet(f._choices_map, hk))
        ELSE IF f._has_numeric_choices /\ IsStr(hk)
        THEN With(FloatValidate(hk), LAMBDA num :
                IF num.st = "ok" /\ MapHas(f._choices_map, num.v)
                THEN Ok(MapGet(f._choices_map, num.v))
                ELSE Err("DomainError", value))
        ELSE Err("DomainError", value)))

\* Domain.validate: the outcome. A passthrough Domain rebuilds _choices_map
\* first; the lookup is by the value, by its pickle when it is unhashable,
\* and by the float it spells when it is a text and a choice is a number
DomainValidate(f, value) ==
    With(IF f.passthrough THEN _parse_choices(f) ELSE f, LAMBDA g :
    With(IF IsStr(value) /\ ~g.case_sensitive THEN Str(Lower(value.s)) ELSE value,
         LAMBDA k :
    With(IF Hashable(k) THEN k ELSE Pickle(k), LAMBDA hk :
        IF MapHas(g._choices_map, hk) THEN Ok(MapGet(g._choices_map, hk))
        ELSE IF g._has_numeric_choices /\ IsStr(hk)
        THEN With(FloatValidate(hk), LAMBDA num :
                IF num.st = "ok" /\ MapHas(g._choices_map, num.v)
                THEN Ok(MapGet(g._choices_map, num.v))
                ELSE Err("DomainError", value))
        ELSE Err("DomainError", value))))

\* validate of the field's variant; Anything is the tests' pass-all field
validate(f, value) ==
    CASE f.variant = "String" -> StringValidate(value)
      [] f.variant = "Integer" -> IntegerValidate(value)
      [] f.variant = "Boolean" -> BooleanValidate(value)
      [] f.variant = "Domain" -> DomainValidate(f, value)
      [] f.variant = "RegEx" -> RegExValidate(f, value)
      [] f.variant = "Decimal" -> DecimalValidate(value)
      [] OTHER -> Ok(value)

-----------------------------------------------------------------------------
(* FuzzyField *)

\* FuzzyField.__init__: name <<>> and owner "" stand for None, seen 0 for no
\* seen_values attribute
Field(variant, required, default, unique, seenId) ==
    [variant |-> variant, required |-> required, default |-> default,
     unique |-> unique, seen |-> IF unique THEN seenId ELSE 0, name |-> <<>>,
     owner |-> ""]

\* a choices collection: a list of the caller with the given items (ref 0),
\* or the seen_values set ref of the heap
ListChoices(items) == [ref |-> 0, items |-> items]
SetChoices(ref) == [ref |-> ref, items |-> <<>>]

\* Domain.__init__
Domain(choices, case_sensitive, passthrough, required, default, unique, seenId) ==
    With(Field("Domain", required, default, unique, seenId) @@
         [choices |-> choices, case_sensitive |-> case_sensitive,
          passthrough |-> passthrough, _choices_map |-> <<>>,
          _has_numeric_choices |-> FALSE],
         LAMBDA f : IF passthrough THEN f ELSE _parse_choices(f))

\* RegEx.__init__
RegEx(pattern, required, default, unique, seenId) ==
    Field("RegEx", required, default, unique, seenId) @@ [pattern |-> pattern]

\* the seen_values of a field in heap h (empty when it has none)
SeenOf(f, h) == IF f.seen = 0 THEN {} ELSE h[f.seen]

\* postprocess that checks for duplicates but never records the value
postprocess_NoRecord(f, value, S) ==
    IF value = NoneV
    THEN IF f.required THEN [out |-> Err("MissingFieldError", NoneV), seen |-> S]
         ELSE [out |-> Ok(f.default), seen |-> S]
    ELSE IF f.unique /\ PyIn(IF Hashable(value) THEN value ELSE Pickle(value), S)
    THEN [out |-> Err("DuplicateError", value), seen |-> S]
    ELSE [out |-> Ok(value), seen |-> S]

\* FuzzyField.postprocess on the seen_values S: the outcome and the new set
postprocess(f, value, S) ==
    IF value = NoneV
    THEN IF f.required THEN [out |-> Err("MissingFieldError", NoneV), seen |-> S]
         ELSE [out |-> Ok(f.default), seen |-> S]
    ELSE IF ~f.unique THEN [out |-> Ok(value), seen |-> S]
    ELSE LET hvalue == IF Hashable(value) THEN value ELSE Pickle(value)
         IN IF PyIn(hvalue, S) THEN [out |-> Err("DuplicateError", value), seen |-> S]
            ELSE [out |-> Ok(value), seen |-> S \cup {hvalue}]

\* parse that returns the validated value without postprocess
parse_NoPostprocess(f, raw, S) ==
    With(preprocess(raw), LAMBDA p :
        [out |-> IF p # NoneV THEN validate(f, p) ELSE Ok(f.default), seen |-> S])

\* parse that hands what preprocess returns to validate even when it is None
parse_AlwaysValidate(f, raw, S) ==
    With(validate(f, preprocess(raw)), LAMBDA v :
        IF v.st # "ok" THEN [out |-> v, seen |-> S]
        ELSE postprocess(f, v.v, S))

\* FuzzyField.parse
parse(f, raw, S) ==
    With(preprocess(raw), LAMBDA p :
    With(IF p # NoneV THEN validate(f, p) ELSE Ok(NoneV), LAMBDA v :
        IF v.st # "ok" THEN [out |-> v, seen |-> S]
        ELSE postprocess(f, v.v, S)))

\* the outcome of the validate step of f.parse(raw): validate's own outcome,
\* or None when preprocess leaves nothing to validate
Validated(f, raw) ==
    With(preprocess(raw), LAMBDA p : IF p # NoneV THEN validate(f, p) ELSE Ok(NoneV))

\* a copy that keeps the seen_values of the original
copy_Shared(f, h) == [field |-> f, heap |-> h]

\* a copy whose new seen_values starts with the content of the original's
copy_KeepSeen(f, h) ==
    IF f.unique
    THEN [field |-> [f EXCEPT !.seen = Len(h) + 1], heap |-> Append(h, h[f.seen])]
    ELSE [field |-> f, heap |-> h]

\* FuzzyField.copy in heap h: the copy, and the heap with its new seen_values
copy(f, h) ==
    IF f.unique
    THEN [field |-> [f EXCEPT !.seen = Len(h) + 1], heap |-> Append(h, {})]
    ELSE [field |-> f, heap |-> h]

\* no key in instance.__dict__, no entry in instance._fuzzyfield_instances
AbsentV == [t |-> "absent", s |-> <<>>, n |-> 0]
NoField == Field("none", FALSE, NoneV, FALSE, 0)

-----------------------------------------------------------------------------
(* FieldSpec: one FuzzyField used standalone, parse called on raw inputs *)

MaxCalls == 3

Txt_d == <<"d">>
Txt_NA == <<" ", "N", "/", "A", " ">>
Txt_NAN == <<"N", "A", "N">>

\* raw inputs of the parse calls
RawInputs ==
    { NoneV, NanV, Str(<<" ", " ">>), Str(Txt_NA), Str(Txt_d), Str(<<" ", "d", "\r">>),
      Str(<<"1">>), Str(<<"1", ".", "0">>), Str(<<"1", ".", "5">>), Str(Txt_NAN),
      Str(<<"i", "n", "f">>), Str(<<"y", "E", "s">>),
      IntV(1), IntV(2), FloatV(10), FloatV(15), BoolV(TRUE), ListV(1), ListV(2) }

Variants == {"Anything", "String", "Integer", "Boolean"}
Defaults == {NoneV, IntV(1), Str(Txt_d)}

\* Domain fields over a list of choices that holds one of the defaults
FieldChoices == <<IntV(2), Str(Txt_d), ListV(1)>>
DomainFields ==
    { Domain(ListChoices(FieldChoices), TRUE, FALSE, r, d, u, 1) :
        r \in BOOLEAN, d \in Defaults, u \in BOOLEAN }

LastInit == [n |-> 0, raw |-> NoneV, val |-> Ok(NoneV), out |-> Ok(NoneV), before |-> {}]

\* the variables of the other specifications, which stay as they are
FieldIdle == fld = NoField /\ accepted = {} /\ last = LastInit
PropIdle ==
    /\ props = <<>> /\ store = <<>> /\ override = <<>> /\ written = <<>>
    /\ plast = [n |-> 0]
PipeIdle ==
    /\ tmpl = <<>> /\ ctorf = <<>> /\ conf = <<>> /\ rd = <<>> /\ gen = <<>>
    /\ log = <<>> /\ yielded = <<>> /\ drawn = <<>> /\ tlast = [n |-> 0]
CopyIdle == objs = <<>> /\ clast = [n |-> 0]
NormIdle == norm = [n |-> 0]
DomIdle == dom = NoField /\ dlast = [n |-> 0]
RestIdle == CopyIdle /\ NormIdle /\ DomIdle

FieldInit ==
    /\ seen = <<{}>>
    /\ fld \in { Field(v, r, d, u, 1) :
                   v \in Variants, r \in BOOLEAN, d \in Defaults, u \in BOOLEAN }
               \cup DomainFields
    /\ accepted = {}
    /\ last = LastInit
    /\ PropIdle
    /\ PipeIdle
    /\ RestIdle

\* one call fld.parse(raw)
Parse(raw) ==
    /\ last.n < MaxCalls
    /\ \E val \in {Validated(fld, raw)}, res \in {parse(fld, raw, SeenOf(fld, seen))} :
          /\ seen' = IF fld.seen = 0 THEN seen ELSE [seen EXCEPT ![fld.seen] = res.seen]
          /\ accepted' = IF res.out.st = "ok" /\ val.st = "ok" /\ val.v # NoneV
                         THEN accepted \cup {val.v} ELSE accepted
          /\ last' = [n |-> last.n + 1, raw |-> raw, val |-> val, out |-> res.out,
                      before |-> accepted]
    /\ UNCHANGED <<fld, propOnly, pipeOnly, restOnly>>

FieldNext == \E raw \in RawInputs : Parse(raw)

FieldSpec == FieldInit /\ [][FieldNext]_vars

-----------------------------------------------------------------------------
(* RegexSpec: one RegEx field used standalone, parse called on raw inputs *)

\* the pattern f\d, and the pattern \d\d
Patterns == { <<"f", "\\d">>, <<"\\d", "\\d">> }

RegExFields == { RegEx(pat, r, NoneV, u, 1) : pat \in Patterns, r \in BOOLEAN, u \in BOOLEAN }

RegexInputs ==
    { NoneV, IntV(1), ListV(1), Str(<<"f", "3">>), Str(<<" ", "f", "3", "\n">>),
      Str(<<"f", "3", "x">>), Str(<<"x", "f", "3">>), Str(<<"f">>), Str(<<"1", "2">>),
      Str(<<"1", "2", "3">>), Str(<<"f", "3", " ", "x">>) }

RegexInit ==
    /\ seen = <<{}>>
    /\ fld \in RegExFields
    /\ accepted = {}
    /\ last = LastInit
    /\ PropIdle
    /\ PipeIdle
    /\ RestIdle

RegexNext == \E raw \in RegexInputs : Parse(raw)

RegexSpec == RegexInit /\ [][RegexNext]_vars

-----------------------------------------------------------------------------
(* DecimalSpec: one Decimal field used standalone, parse called on raw inputs *)

\* Decimal(required=...): the default of a Decimal field is Decimal('nan')
DecimalFields == { Field("Decimal", r, NanV, FALSE, 0) : r \in BOOLEAN }

\* decimal literals with and without a point, an exponent and digits before
\* the point; texts that are no literal; values that are no text
DecimalInputs ==
    { NoneV, IntV(1), FloatV(15), ListV(1),
      Str(<<"1", "0">>), Str(<<"1", ".", "5", "0">>), Str(<<"0", ".", "0">>),
      Str(<<".", "5", "0">>), Str(<<".", "0">>), Str(<<"-", ".", "0", "0">>),
      Str(<<"1", ".", "0", "e", "1", "0">>), Str(<<"1", "0", "E", "-", "0", "1">>),
      Str(<<".", "5", "e", "0">>), Str(<<".", "0", "e", "1">>),
      Str(<<"(", "1", ".", "5", "0", ")">>), Str(<<" ", "2", ".", "\n">>),
      Str(<<"1", "e">>), Str(<<".">>), Str(Txt_d) }

DecimalInit ==
    /\ seen = <<{}>>
    /\ fld \in DecimalFields
    /\ accepted = {}
    /\ last = LastInit
    /\ PropIdle
    /\ PipeIdle
    /\ RestIdle

DecimalNext == \E raw \in DecimalInputs : Parse(raw)

DecimalSpec == DecimalInit /\ [][DecimalNext]_vars

-----------------------------------------------------------------------------
(* PropSpec: fields used as descriptors of a host class C and its subclass D *)

MaxOps == 3
MaxOverrides == 1

Instances == {"c1", "c2", "d1"}
ClassOf(i) == IF i = "d1" THEN "D" ELSE "C"
PropNames == {<<"y">>, <<"z">>}

\* FuzzyField.__set_name__
set_name(f, owner, name) == [f EXCEPT !.owner = owner, !.name = name]

PropValues == {NoneV, Str(Txt_d), IntV(1), FloatV(10), ListV(1)}

\* the fields a caller may write to a property to override it on an instance
OverrideFields(seenId) ==
    { Field("String", FALSE, NoneV, FALSE, 0), Field("Anything", TRUE, NoneV, TRUE, seenId) }

\* class C: y = Anything(required=False, unique=True)
\*          z = Anything(required=r, default='d', unique=True); class D(C)
PropInit ==
    /\ seen = <<{}, {}>>
    /\ \E r \in BOOLEAN :
          props = [nm \in PropNames |->
                     IF nm = <<"y">>
                     THEN set_name(Field("Anything", FALSE, NoneV, TRUE, 1), "C", nm)
                     ELSE set_name(Field("Anything", r, Str(Txt_d), TRUE, 2), "C", nm)]
    /\ store = [i \in Instances |-> [nm \in PropNames |-> AbsentV]]
    /\ override = [i \in Instances |-> [nm \in PropNames |-> NoField]]
    /\ written = [nm \in PropNames |-> {}]
    /\ plast = [n |-> 0, op |-> "none", inst |-> "c1", name |-> <<"y">>, out |-> Ok(NoneV),
                val |-> Ok(NoneV), before |-> {}, direct |-> TRUE, raw |-> NoneV]
    /\ FieldIdle
    /\ PipeIdle
    /\ RestIdle

\* every write is parsed by the class attribute, overridden or not
FieldFor_ClassOnly(i, nm) == props[nm]

\* the field that parses a raw value written to property nm of instance i
FieldFor(i, nm) == IF override[i][nm] # NoField THEN override[i][nm] ELSE props[nm]

\* __set__ that stores what validate returned before postprocess has run
SetValue_StoreFirst(i, nm, raw) ==
    /\ plast.n < MaxOps
    /\ \E f \in {FieldFor(i, nm)} :
       \E val \in {Validated(f, raw)}, res \in {parse(f, raw, SeenOf(f, seen))} :
          /\ seen' = IF f.seen = 0 THEN seen ELSE [seen EXCEPT ![f.seen] = res.seen]
          /\ store' = IF res.out.st = "ok" THEN [store EXCEPT ![i][nm] = res.out.v]
                      ELSE IF val.st = "ok" THEN [store EXCEPT ![i][nm] = val.v]
                      ELSE store
          /\ written' = IF res.out.st = "ok" /\ val.st = "ok" /\ val.v # NoneV
                        THEN [written EXCEPT ![nm] = @ \cup
                                 {[v |-> val.v, inst |-> i, direct |-> f = props[nm]]}]
                        ELSE written
          /\ plast' = [n |-> plast.n + 1, op |-> "set", inst |-> i, name |-> nm,
                       out |-> res.out, val |-> val, before |-> written[nm],
                       direct |-> f = props[nm], raw |-> raw]
    /\ UNCHANGED <<props, override, fieldOnly, pipeOnly, restOnly>>

\* FuzzyField.__set__ with a raw value
SetValue(i, nm, raw) ==
    /\ plast.n < MaxOps
    /\ \E f \in {FieldFor(i, nm)} :
       \E val \in {Validated(f, raw)}, res \in {parse(f, raw, SeenOf(f, seen))} :
          /\ seen' = IF f.seen = 0 THEN seen ELSE [seen EXCEPT ![f.seen] = res.seen]
          /\ store' = IF res.out.st = "ok" THEN [store EXCEPT ![i][nm] = res.out.v] ELSE store
          /\ written' = IF res.out.st = "ok" /\ val.st = "ok" /\ val.v # NoneV
                        THEN [written EXCEPT ![nm] = @ \cup
                                 {[v |-> val.v, inst |-> i, direct |-> f = props[nm]]}]
                        ELSE written
          /\ plast' = [n |-> plast.n + 1, op |-> "set", inst |-> i, name |-> nm,
                       out |-> res.out, val |-> val, before |-> written[nm],
                       direct |-> f = props[nm], raw |-> raw]
    /\ UNCHANGED <<props, override, fieldOnly, pipeOnly, restOnly>>

\* FuzzyField.__set__ with a new FuzzyField object
SetField(i, nm) ==
    /\ plast.n < MaxOps
    /\ Len(seen) < Cardinality(PropNames) + MaxOverrides
    /\ \E g \in OverrideFields(Len(seen) + 1) :
          /\ seen' = IF g.unique THEN Append(seen, {}) ELSE seen
          /\ override' = [override EXCEPT ![i][nm] =
                             [g EXCEPT !.name = props[nm].name, !.owner = props[nm].owner]]
    /\ plast' = [n |-> plast.n + 1, op |-> "setfield", inst |-> i, name |-> nm,
                 out |-> Ok(NoneV), val |-> Ok(NoneV), before |-> written[nm],
                 direct |-> FALSE, raw |-> NoneV]
    /\ UNCHANGED <<props, store, written, fieldOnly, pipeOnly, restOnly>>

\* FuzzyField.__get__ on an instance
Get(i, nm) ==
    /\ plast.n < MaxOps
    /\ \E f \in {props[nm]} :
       \E out \in {IF f.name = <<>> \/ ClassOf(i) # f.owner THEN Crash("AssertionError")
                   ELSE IF store[i][nm] # AbsentV THEN Ok(store[i][nm])
                   ELSE IF ~f.required THEN Ok(f.default)
                   ELSE Crash("AttributeError")} :
          plast' = [n |-> plast.n + 1, op |-> "get", inst |-> i, name |-> nm, out |-> out,
                    val |-> Ok(NoneV), before |-> written[nm], direct |-> TRUE,
                    raw |-> NoneV]
    /\ UNCHANGED <<seen, props, store, override, written, fieldOnly, pipeOnly, restOnly>>

\* FuzzyField.__delete__
Delete(i, nm) ==
    /\ plast.n < MaxOps
    /\ store' = [store EXCEPT ![i][nm] = AbsentV]
    /\ plast' = [n |-> plast.n + 1, op |-> "delete", inst |-> i, name |-> nm,
                 out |-> IF store[i][nm] = AbsentV THEN Crash("AttributeError") ELSE Ok(NoneV),
                 val |-> Ok(NoneV), before |-> written[nm], direct |-> TRUE,
                 raw |-> NoneV]
    /\ UNCHANGED <<seen, props, override, written, fieldOnly, pipeOnly, restOnly>>

PropNext ==
    \E i \in Instances, nm \in PropNames :
        \/ \E raw \in PropValues : SetValue(i, nm, raw)
        \/ SetField(i, nm)
        \/ Get(i, nm)
        \/ Delete(i, nm)

PropSpec == PropInit /\ [][PropNext]_vars

-----------------------------------------------------------------------------
(* EffectSpec: the field of a class property, written through instances   *)
(* and parsed directly as C.y.parse(raw)                                   *)

MaxEffects == 2

EffectVariants == {"String", "Integer"}

\* the fields of property y: required or not, unique or not
EffectFields ==
    { Field(v, r, NoneV, u, 1) : v \in EffectVariants, r \in BOOLEAN, u \in BOOLEAN }
    \cup { Domain(ListChoices(FieldChoices), TRUE, FALSE, r, NoneV, u, 1) :
             r \in BOOLEAN, u \in BOOLEAN }

EffectInputs ==
    { NoneV, Str(Txt_d), Str(<<"1">>), Str(<<"1", ".", "5">>), IntV(1), IntV(2),
      FloatV(10), ListV(1) }

EffectInstances == {"c1", "c2"}

\* class C: y = <one of EffectFields>; z = Anything(unique=True)
EffectInit ==
    /\ seen = <<{}, {}>>
    /\ \E f \in EffectFields :
          /\ props = [nm \in PropNames |->
                        IF nm = <<"y">> THEN set_name(f, "C", nm)
                        ELSE set_name(Field("Anything", FALSE, NoneV, TRUE, 2), "C", nm)]
          /\ fld = set_name(f, "C", <<"y">>)
    /\ store = [i \in Instances |-> [nm \in PropNames |-> AbsentV]]
    /\ override = [i \in Instances |-> [nm \in PropNames |-> NoField]]
    /\ written = [nm \in PropNames |-> {}]
    /\ plast = [n |-> 0, op |-> "none", inst |-> "c1", name |-> <<"y">>, out |-> Ok(NoneV),
                val |-> Ok(NoneV), before |-> {}, direct |-> TRUE, raw |-> NoneV]
    /\ accepted = {}
    /\ last = LastInit
    /\ PipeIdle
    /\ RestIdle

EffectNext ==
    /\ last.n + plast.n < MaxEffects
    /\ \E raw \in EffectInputs :
          \/ Parse(raw)
          \/ \E i \in EffectInstances, nm \in PropNames : SetValue(i, nm, raw)

EffectSpec == EffectInit /\ [][EffectNext]_vars

-----------------------------------------------------------------------------
(* ValidationError *)

\* ValidationError.__init__: <<>> stands for None, <<n>> for the number n
ValidationError(kind, name, value) ==
    [kind |-> kind, name |-> name, value |-> value, line_num |-> <<>>,
     record_num |-> <<>>]

\* prefix that lets the record number take precedence over the line number
prefix_RecordFirst(exc) ==
    [at |-> IF exc.record_num # <<>> THEN "At record"
            ELSE IF exc.line_num # <<>> THEN "At line" ELSE "",
     n |-> IF exc.record_num # <<>> THEN exc.record_num ELSE exc.line_num,
     field |-> exc.name]

\* ValidationError.prefix: the parts of the text that starts every rendering,
\* "<at> <n>: " (none when at is "") and "Field <field>: " (none when field
\* is empty)
prefix(exc) ==
    [at |-> IF exc.line_num # <<>> THEN "At line"
            ELSE IF exc.record_num # <<>> THEN "At record" ELSE "",
     n |-> IF exc.line_num # <<>> THEN exc.line_num ELSE exc.record_num,
     field |-> exc.name]

-----------------------------------------------------------------------------
(* DictReader *)

\* one item of a dict, in insertion order
Cell(k, v) == [k |-> k, v |-> v]

\* row.pop(None, None)
PopNone(row) == SelectSeq(row, LAMBDA c : c.k # NoneV)

\* a blank test that takes no text for blank
IsBlank_NoneOnly(row) == \A i \in 1..Len(row) : row[i].v = NoneV

\* all(isinstance(cell, str) and not cell.strip() or cell is None
\*     for cell in row.values())
IsBlank(row) ==
    \A i \in 1..Len(row) :
        (IsStr(row[i].v) /\ Strip(row[i].v.s) = <<>>) \/ row[i].v = NoneV

\* headers that are taken as they are written
StripHeaders_Keep(row) == [i \in 1..Len(row) |-> Cell(row[i].k.s, row[i].v)]

\* {k.strip(): v for k, v in row.items()}: the keys become plain text; of two
\* items with the same stripped key, RowGet reads the later one
StripHeaders(row) == [i \in 1..Len(row) |-> Cell(Strip(row[i].k.s), row[i].v)]

\* row.get(name, None)
RowGet(row, name) ==
    IF \E i \in 1..Len(row) : row[i].k = name
    THEN row[CHOOSE i \in 1..Len(row) :
                 row[i].k = name /\ \A j \in (i+1)..Len(row) : row[j].k # name].v
    ELSE NoneV

\* d[k] = v
DictSet(d, k, v) ==
    IF \E i \in 1..Len(d) : d[i].k = k
    THEN [i \in 1..Len(d) |-> IF d[i].k = k THEN Cell(k, v) ELSE d[i]]
    ELSE Append(d, Cell(k, v))

\* self.name_map.get(name, name)
NameMapGet(name_map, name) == IF name \in DOMAIN name_map THEN name_map[name] ELSE name

\* the items of a set in the order its iterator gives them
RECURSIVE SetItems(_)
SetItems(S) ==
    IF S = {} THEN <<>>
    ELSE With(CHOOSE x \in S : TRUE, LAMBDA x : <<x>> \o SetItems(S \ {x}))

\* the field f as a call in heap h finds it: a Domain whose choices is a
\* seen_values set reads the items that set has in h
Bound(f, h) ==
    IF f.variant = "Domain" /\ f.choices.ref # 0
    THEN [f EXCEPT !.choices.items = SetItems(h[f.choices.ref])]
    ELSE f

\* a heap that never takes the new seen_values of a field
UpdateSeen_Dropped(h, f, S) == h

\* the heap after the seen_values of f became S
UpdateSeen(h, f, S) == IF f.seen = 0 THEN h ELSE [h EXCEPT ![f.seen] = S]

\* csv.DictReader.line_num after pos records of one line each were read: the
\* header line is read with the first record
LineNum(pos) == IF pos = 0 THEN 0 ELSE pos + 1

\* the values of the errors argument: 'raise', a log level, a callable that
\* returns ("collect") and a callable that raises ("strict")
Policies == {"raise", "warning", "collect", "strict"}
NonAbort(c) == c.errors \in {"warning", "collect"}

\* an error handler that logs under every policy and never raises
_error_handler_Log(c, r, exc) ==
    With([exc EXCEPT !.record_num = <<r.record_num>>,
                     !.line_num = IF c.src = "csv" THEN <<LineNum(r.srcpos)>> ELSE @],
         LAMBDA e : [exc |-> e, text |-> prefix(e), how |-> "log", end |-> ""])

\* an error handler under which an exception of the caller's handler is lost
_error_handler_Swallow(c, r, exc) ==
    With([exc EXCEPT !.record_num = <<r.record_num>>,
                     !.line_num = IF c.src = "csv" THEN <<LineNum(r.srcpos)>> ELSE @],
         LAMBDA e :
            [exc |-> e, text |-> prefix(e),
             how |-> IF c.errors = "raise" THEN "raise"
                     ELSE IF c.errors = "warning" THEN "log" ELSE "call",
             end |-> IF c.errors = "raise" THEN "raised" ELSE ""])

\* DictReader._error_handler: the annotated error, how it was dispatched and
\* the exception that leaves the handler ("" when it returns)
_error_handler(c, r, exc) ==
    With([exc EXCEPT !.record_num = <<r.record_num>>,
                     !.line_num = IF c.src = "csv" THEN <<LineNum(r.srcpos)>> ELSE @],
         LAMBDA e :
            [exc |-> e, text |-> prefix(e),
             how |-> IF c.errors = "raise" THEN "raise"
                     ELSE IF c.errors = "warning" THEN "log" ELSE "call",
             end |-> IF c.errors = "raise" THEN "raised"
                     ELSE IF c.errors = "strict" THEN "handler" ELSE ""])

\* the key under which the post-hook of a subclass leaves its mark
HookKey == <<"k">>

\* preprocess_row and postprocess_row: those of DictReader return the row as
\* it is; a subclass overrides them to return None for the record numbers it
\* skips and, from the post-hook, the row with the record number added to it
preprocess_row(c, r, row) == [none |-> r.record_num \in c.preskip, row |-> row]

\* a post-hook whose None is taken for an empty record
postprocess_row_NeverNone(c, r, row) ==
    [none |-> FALSE,
     row |-> IF r.record_num \in c.postskip THEN <<>>
             ELSE IF c.postskip = {} THEN row
             ELSE DictSet(row, HookKey, IntV(r.record_num))]

postprocess_row(c, r, row) ==
    [none |-> r.record_num \in c.postskip,
     row |-> IF c.postskip = {} THEN row ELSE DictSet(row, HookKey, IntV(r.record_num))]

\* what the loop over the fields carries from one field to the next
FieldAcc(h, lg) ==
    [out |-> <<>>, required_field_error |-> FALSE, heap |-> h, log |-> lg,
     parsed |-> 0, failed |-> <<>>, end |-> "", exc |-> ""]

\* the log entry of an error dispatched while record g.idx - 1 is processed
LogEntry(d, r, g) ==
    [how |-> d.how, exc |-> d.exc, text |-> d.text, iter |-> r.iters,
     idx |-> g.idx - 1, srcpos |-> r.srcpos]

\* DictReader.__iter__, the loop over self.fields.values() from field i on
RECURSIVE FieldLoop(_, _, _, _, _, _)
FieldLoop(c, r, g, row, i, acc) ==
    IF i > Len(r.fields) \/ acc.end # "" THEN acc
    ELSE
    With(r.fields[i], LAMBDA field :
    With(NameMapGet(c.name_map, field.name), LAMBDA out_name :
    With(parse(Bound(field, acc.heap), RowGet(row, field.name), SeenOf(field, acc.heap)),
         LAMBDA res :
        FieldLoop(c, r, g, row, i + 1,
            IF res.out.st = "ok"
            THEN [acc EXCEPT !.out = DictSet(@, out_name, res.out.v),
                             !.heap = UpdateSeen(@, field, res.seen),
                             !.parsed = @ + 1]
            ELSE IF res.out.st = "crash"
            THEN [acc EXCEPT !.parsed = @ + 1, !.end = "crashed", !.exc = res.out.kind]
            ELSE
            With(_error_handler(c, r, ValidationError(res.out.kind, field.name, res.out.v)),
                 LAMBDA d :
                [acc EXCEPT
                    !.log = Append(@, LogEntry(d, r, g)),
                    !.parsed = @ + 1,
                    !.failed = Append(@, i),
                    !.end = d.end,
                    !.exc = IF d.end = "" THEN "" ELSE res.out.kind,
                    !.required_field_error = IF d.end = "" THEN @ \/ field.required ELSE @,
                    !.out = IF d.end = "" /\ ~field.required
                            THEN DictSet(@, out_name, field.default) ELSE @])))))

\* the place of the source's iterator: the generator's own one over a list,
\* the source's over a one-shot source
SourcePos(c, st) == IF c.src = "list" THEN st.g.pos ELSE st.r.srcpos

\* what became of the record drawn last, the record SourcePos - 1 of the source
Fate(c, st, fate, acc) ==
    Append(st.drawn,
           [iter |-> st.r.iters, idx |-> st.g.idx - 1, src |-> SourcePos(c, st) - 1,
            fate |-> fate,
            parsed |-> acc.parsed, failed |-> acc.failed, out |-> acc.out,
            exc |-> acc.exc])

\* a loop header that draws the next record without counting it
Draw_NoCount(c, st) ==
    [st EXCEPT !.r.srcpos = IF c.src = "list" THEN @ ELSE @ + 1,
               !.g.idx = @ + 1,
               !.g.pos = IF c.src = "list" THEN @ + 1 ELSE @]

\* a loop header that takes two records from a one-shot source for one
Draw_ReadAhead(c, st) ==
    [st EXCEPT !.r.record_num = st.g.idx,
               !.r.srcpos = IF c.src = "list" THEN @ ELSE @ + 2,
               !.g.idx = @ + 1,
               !.g.pos = IF c.src = "list" THEN @ + 1 ELSE @]

\* for self.record_num, row in enumerate(self.iterable): the next record is
\* drawn and its index stored
Draw(c, st) ==
    [st EXCEPT !.r.record_num = st.g.idx,
               !.r.srcpos = IF c.src = "list" THEN @ ELSE @ + 1,
               !.g.idx = @ + 1,
               !.g.pos = IF c.src = "list" THEN @ + 1 ELSE @]

\* DictReader.__iter__: the generator runs from where it stands to its next
\* yield, to its return or to the exception that leaves it
RECURSIVE __iter__(_, _)
__iter__(c, st) ==
    With(SourcePos(c, st), LAMBDA pos :
    IF pos >= Len(c.rows) THEN [st EXCEPT !.g.pc = "done", !.r.exhausted = TRUE]
    ELSE
    With(Draw(c, st), LAMBDA s1 :
    With(preprocess_row(c, s1.r, c.rows[pos + 1]), LAMBDA pre :
    IF pre.none
    THEN __iter__(c, [s1 EXCEPT !.drawn = Fate(c, s1, "prehook", FieldAcc(s1.heap, s1.log))])
    ELSE
    With(PopNone(pre.row), LAMBDA row :
    IF IsBlank(row)
    THEN __iter__(c, [s1 EXCEPT !.drawn = Fate(c, s1, "blank", FieldAcc(s1.heap, s1.log))])
    ELSE
    With(FieldLoop(c, s1.r, s1.g, StripHeaders(row), 1, FieldAcc(s1.heap, s1.log)),
         LAMBDA acc :
    With([s1 EXCEPT !.heap = acc.heap, !.log = acc.log], LAMBDA s2 :
    IF acc.end # ""
    THEN [s2 EXCEPT !.g.pc = acc.end, !.drawn = Fate(c, s2, acc.end, acc)]
    ELSE IF acc.required_field_error
    THEN __iter__(c, [s2 EXCEPT !.drawn = Fate(c, s2, "required", acc)])
    ELSE IF postprocess_row(c, s2.r, acc.out).none
    THEN __iter__(c, [s2 EXCEPT !.drawn = Fate(c, s2, "posthook", acc)])
    ELSE [s2 EXCEPT !.g.pc = "suspended",
                    !.yielded = Append(@, [iter |-> s2.r.iters, idx |-> s2.g.idx - 1,
                                           out |-> postprocess_row(c, s2.r, acc.out).row]),
                    !.drawn = Fate(c, s2, "yielded", acc)]))))))

\* DictReader.__init__, lines 103 and 106-110: every field of the dict fs is
\* replaced by a copy; setname tells whether the copy gets owner and name
RECURSIVE CopyAll(_, _, _, _)
CopyAll(fs, i, h, setname) ==
    IF i > Len(fs) THEN [fields |-> fs, heap |-> h]
    ELSE With(copy(fs[i].v, h), LAMBDA cp :
            CopyAll([fs EXCEPT ![i] = Cell(fs[i].k,
                                           IF setname THEN set_name(cp.field, "R", fs[i].k)
                                           ELSE cp.field)],
                    i + 1, cp.heap, setname))

\* self.fields.update(fields)
RECURSIVE DictUpdate(_, _, _)
DictUpdate(d, e, i) ==
    IF i > Len(e) THEN d ELSE DictUpdate(DictSet(d, e[i].k, e[i].v), e, i + 1)

\* DictReader.__init__: the fields of the new object and the heap
NewFields(c, h) ==
    With(CopyAll(tmpl, 1, h, FALSE), LAMBDA own :
    With(IF c.ctor THEN DictUpdate(own.fields, ctorf, 1) ELSE own.fields, LAMBDA all :
    With(CopyAll(all, 1, own.heap, TRUE), LAMBDA res :
        [fields |-> [i \in 1..Len(res.fields) |-> res.fields[i].v], heap |-> res.heap])))

-----------------------------------------------------------------------------
(* PipeSpec: one DictReader of a subclass R over a source of records; and   *)
(* TwoPipeSpec: two DictReaders of R, each over its own source of the same  *)
(* records                                                                  *)

MaxRows == 2
MaxIters == 2
MaxTemplateCalls == 1

FieldA == <<"a">>
FieldN == <<"n">>
FieldC == <<"c">>
FieldU == <<"u">>
Txt_x == <<"x">>

\* class R(DictReader): fields = OrderedDict(a=String(unique=True),
\*     n=Integer(required=False), c=String(required=False, default='d'))
ClassFields ==
    << Cell(FieldA, set_name(Field("String", TRUE, NoneV, TRUE, 1), "R", FieldA)),
       Cell(FieldN, set_name(Field("Integer", FALSE, NanV, FALSE, 0), "R", FieldN)),
       Cell(FieldC, set_name(Field("String", FALSE, Str(Txt_d), FALSE, 0), "R", FieldC)) >>

\* fields={'u': FuzzyField-like Anything(required=False, unique=True)}
CtorFields == << Cell(FieldU, Field("Anything", FALSE, NoneV, TRUE, 2)) >>

\* source records
RowOk == << Cell(Str(FieldA), Str(Txt_x)), Cell(Str(FieldN), Str(<<"1">>)),
            Cell(Str(FieldC), Str(Txt_d)) >>
RowPadded == << Cell(Str(<<" ", "a", " ">>), Str(Txt_x)), Cell(NoneV, ListV(1)),
                Cell(Str(FieldN), FloatV(15)), Cell(Str(<<"o">>), Str(Txt_d)) >>
RowBad == << Cell(Str(FieldN), Str(<<"1">>)), Cell(Str(FieldC), ListV(1)) >>
RowBlank == << Cell(Str(FieldA), Str(<<" ", " ">>)), Cell(Str(FieldN), NoneV),
               Cell(NoneV, Str(Txt_x)) >>
RowNAN == << Cell(Str(FieldA), NoneV), Cell(Str(FieldN), Str(Txt_NAN)),
             Cell(Str(FieldC), Str(Txt_d)) >>
RowU1 == << Cell(Str(FieldA), Str(Txt_x)), Cell(Str(FieldU), IntV(1)) >>
RowU2 == << Cell(Str(FieldA), Str(Txt_d)), Cell(Str(FieldU), FloatV(10)) >>

PipeRows == {RowOk, RowPadded, RowBad, RowBlank, RowNAN}
TwoRows == {RowU1, RowU2}

\* the sources of at most MaxRows records over the rows R
Sources(R) == UNION {[1..k -> R] : k \in 0..MaxRows}

NameMaps == {<<>>, [x \in {FieldA} |-> <<"i", "d">>]}

\* the hooks of DictReader itself, and the hooks of a subclass that skips
\* record 0 before parsing and record 1 after
Hooks == {[pre |-> {}, post |-> {}], [pre |-> {0}, post |-> {1}]}

PipeConfs ==
    { [errors |-> e, name_map |-> nm, src |-> s, rows |-> rows, preskip |-> h.pre,
       postskip |-> h.post, ctor |-> FALSE] :
        e \in Policies, nm \in NameMaps, s \in {"list", "csv"}, rows \in Sources(PipeRows),
        h \in Hooks }

TwoConfs ==
    { [errors |-> "collect", name_map |-> <<>>, src |-> "list", rows |-> rows,
       preskip |-> {}, postskip |-> {}, ctor |-> TRUE] : rows \in Sources(TwoRows) }

\* before construction: the source stands at its start, nothing else exists.
\* rd[p].iters counts the calls of iter() on reader p and rd[p].exhausted
\* tells that one of its generators has returned; log, yielded and drawn are
\* histories
PipeStart ==
    /\ seen = <<{}, {}>>
    /\ tmpl = ClassFields
    /\ ctorf = CtorFields
    /\ rd = [p \in DOMAIN conf |->
                [built |-> FALSE, fields |-> <<>>, record_num |-> -1, srcpos |-> 0,
                 iters |-> 0, exhausted |-> FALSE]]
    /\ gen = [p \in DOMAIN conf |-> [pc |-> "none", idx |-> 0, pos |-> 0]]
    /\ log = [p \in DOMAIN conf |-> <<>>]
    /\ yielded = [p \in DOMAIN conf |-> <<>>]
    /\ drawn = [p \in DOMAIN conf |-> <<>>]
    /\ tlast = [n |-> 0, field |-> 1, raw |-> NoneV, out |-> Ok(NoneV), text |-> <<>>]
    /\ FieldIdle
    /\ PropIdle
    /\ RestIdle

\* a subclass whose post-hook discards record 0 and marks the others
PostHookConfs ==
    { [errors |-> "warning", name_map |-> <<>>, src |-> "list", rows |-> rows,
       preskip |-> {}, postskip |-> {0}, ctor |-> FALSE] : rows \in Sources(PipeRows) }

PipeInit == conf \in [{1} -> PipeConfs \cup PostHookConfs] /\ PipeStart
\* two readers built with the same arguments over sources of equal records
TwoPipeInit == conf \in {[p \in {1, 2} |-> c] : c \in TwoConfs} /\ PipeStart

\* a generator whose enumerate counts from one
NewGenerator_FromOne == [pc |-> "new", idx |-> 1, pos |-> 0]

\* the generator object of a call of __iter__: not started; enumerate and the
\* iterator of a list source start from the beginning when it first runs
NewGenerator == [pc |-> "new", idx |-> 0, pos |-> 0]

\* R(iterable, fields, errors=..., name_map=...)
Construct(p) ==
    /\ ~rd[p].built
    /\ \E nf \in {NewFields(conf[p], seen)} :
          /\ rd' = [rd EXCEPT ![p] = [@ EXCEPT !.built = TRUE, !.fields = nf.fields,
                                               !.record_num = -1]]
          /\ seen' = nf.heap
    /\ UNCHANGED <<tmpl, ctorf, conf, gen, log, yielded, drawn, tlast, fieldOnly, propOnly,
                 restOnly>>

\* iter(reader): a new generator, which runs nothing yet; the one made before
\* is dropped
Iter(p) ==
    /\ rd[p].built
    /\ rd[p].iters < MaxIters
    /\ rd' = [rd EXCEPT ![p].iters = @ + 1]
    /\ gen' = [gen EXCEPT ![p] = NewGenerator]
    /\ UNCHANGED <<seen, tmpl, ctorf, conf, log, yielded, drawn, tlast, fieldOnly, propOnly,
                 restOnly>>

\* next(generator)
NextRecord(p) ==
    /\ gen[p].pc \in {"new", "suspended"}
    /\ \E st \in {__iter__(conf[p], [r |-> rd[p], g |-> gen[p], heap |-> seen,
                                     log |-> log[p], yielded |-> yielded[p],
                                     drawn |-> drawn[p]])} :
          /\ rd' = [rd EXCEPT ![p] = st.r]
          /\ gen' = [gen EXCEPT ![p] = st.g]
          /\ seen' = st.heap
          /\ log' = [log EXCEPT ![p] = st.log]
          /\ yielded' = [yielded EXCEPT ![p] = st.yielded]
          /\ drawn' = [drawn EXCEPT ![p] = st.drawn]
    /\ UNCHANGED <<tmpl, ctorf, conf, tlast, fieldOnly, propOnly,
                 restOnly>>

TemplateInputs == {NoneV, Str(Txt_x)}

\* R.fields[name].parse(raw): a class-level field that keeps seen_values is
\* used standalone
TemplateParse(i, raw) ==
    /\ tlast.n < MaxTemplateCalls
    /\ tmpl[i].v.unique
    /\ \E f \in {tmpl[i].v} :
       \E res \in {parse(f, raw, SeenOf(f, seen))} :
          /\ seen' = UpdateSeen(seen, f, res.seen)
          /\ tlast' = [n |-> tlast.n + 1, field |-> i, raw |-> raw, out |-> res.out,
                       text |-> IF res.out.st = "err"
                                THEN <<prefix(ValidationError(res.out.kind, f.name,
                                                              res.out.v))>>
                                ELSE <<>>]
    /\ UNCHANGED <<tmpl, ctorf, conf, rd, gen, log, yielded, drawn, fieldOnly, propOnly,
                 restOnly>>

PipeNext ==
    \/ \E p \in DOMAIN conf : Construct(p)
    \/ \E p \in DOMAIN conf : Iter(p)
    \/ \E p \in DOMAIN conf : NextRecord(p)
    \/ \E i \in 1..Len(tmpl), raw \in TemplateInputs : TemplateParse(i, raw)

PipeSpec == PipeInit /\ [][PipeNext]_vars
TwoPipeSpec == TwoPipeInit /\ [][PipeNext]_vars

-----------------------------------------------------------------------------
(* XrefSpec: one DictReader of a subclass X whose second field is a Domain  *)
(* over the seen_values of its first field                                  *)

FieldB == <<"b">>

\* A = String(unique=True); B = Domain(A.seen_values, passthrough=True,
\* required=r); class X(DictReader): fields = OrderedDict(a=A, b=B)
XrefFields(r) ==
    << Cell(FieldA, set_name(Field("String", TRUE, NoneV, TRUE, 1), "X", FieldA)),
       Cell(FieldB, set_name(Domain(SetChoices(1), TRUE, TRUE, r, NoneV, FALSE, 0),
                             "X", FieldB)) >>

RowX(a, b) == << Cell(Str(FieldA), a), Cell(Str(FieldB), b) >>
XrefRows ==
    { RowX(Str(Txt_x), Str(Txt_x)), RowX(Str(Txt_d), Str(Txt_x)), RowX(Str(Txt_x), NoneV) }

\* the hooks of DictReader itself, and a post-hook that discards record 0
XrefHooks == {{}, {0}}

XrefConfs ==
    { [errors |-> e, name_map |-> <<>>, src |-> "list", rows |-> rows, preskip |-> {},
       postskip |-> h, ctor |-> FALSE] :
        e \in {"warning", "collect"}, rows \in Sources(XrefRows), h \in XrefHooks }

XrefInit ==
    /\ conf \in [{1} -> XrefConfs]
    /\ seen = <<{}>>
    /\ tmpl \in {XrefFields(r) : r \in BOOLEAN}
    /\ ctorf = <<>>
    /\ rd = [p \in DOMAIN conf |->
                [built |-> FALSE, fields |-> <<>>, record_num |-> -1, srcpos |-> 0,
                 iters |-> 0, exhausted |-> FALSE]]
    /\ gen = [p \in DOMAIN conf |-> [pc |-> "none", idx |-> 0, pos |-> 0]]
    /\ log = [p \in DOMAIN conf |-> <<>>]
    /\ yielded = [p \in DOMAIN conf |-> <<>>]
    /\ drawn = [p \in DOMAIN conf |-> <<>>]
    /\ tlast = [n |-> 0, field |-> 1, raw |-> NoneV, out |-> Ok(NoneV), text |-> <<>>]
    /\ FieldIdle
    /\ PropIdle
    /\ RestIdle

XrefSpec == XrefInit /\ [][PipeNext]_vars

-----------------------------------------------------------------------------
(* CopySpec: a FuzzyField and the copies made of it, each parsed on its own *)

MaxCopyOps == 4
MaxObjs == 3

CopyInputs == {NoneV, Str(Txt_d), IntV(1), IntV(2), FloatV(10), ListV(1)}

CopyInit ==
    /\ seen = <<{}>>
    /\ objs \in { <<Field(v, r, d, u, 1)>> :
                    v \in {"Anything", "String"}, r \in BOOLEAN,
                    d \in {NoneV, Str(Txt_d)}, u \in BOOLEAN }
    /\ clast = [n |-> 0, op |-> "none", obj |-> 0, new |-> 0, out |-> Ok(NoneV),
                before |-> <<>>, objs |-> <<>>]
    /\ FieldIdle /\ PropIdle /\ PipeIdle /\ NormIdle /\ DomIdle

\* objs[i].copy(): the result is a new object, next to the existing ones
CopyObj(i) ==
    /\ clast.n < MaxCopyOps
    /\ Len(objs) < MaxObjs
    /\ \E res \in {copy(objs[i], seen)} :
          /\ objs' = Append(objs, res.field)
          /\ seen' = res.heap
          /\ clast' = [n |-> clast.n + 1, op |-> "copy", obj |-> i,
                       new |-> Len(objs) + 1, out |-> Ok(NoneV), before |-> seen,
                       objs |-> objs]
    /\ UNCHANGED <<fieldOnly, propOnly, pipeOnly, normOnly, domOnly>>

\* objs[i].parse(raw)
ParseObj(i, raw) ==
    /\ clast.n < MaxCopyOps
    /\ \E res \in {parse(objs[i], raw, SeenOf(objs[i], seen))} :
          /\ seen' = UpdateSeen(seen, objs[i], res.seen)
          /\ clast' = [n |-> clast.n + 1, op |-> "parse", obj |-> i, new |-> 0,
                       out |-> res.out, before |-> seen, objs |-> objs]
    /\ UNCHANGED <<objs, fieldOnly, propOnly, pipeOnly, normOnly, domOnly>>

CopyNext ==
    \/ \E i \in DOMAIN objs : CopyObj(i)
    \/ \E i \in DOMAIN objs, raw \in CopyInputs : ParseObj(i, raw)

CopySpec == CopyInit /\ [][CopyNext]_vars

-----------------------------------------------------------------------------
(* NormSpec: FuzzyField.preprocess, a static method, applied to raw inputs *)

MaxNormCalls == 1
MaxLen == 3

NormAlphabet == {" ", "\t", "N", "A", "/", "d"}
Paddings == {<<>>, <<" ">>, <<"\t", " ">>, <<"\n">>, <<"\r", "\n">>}

\* every text of NA_VALUES, bare and between leading and trailing whitespace
PaddedTokens == { Str(pre \o t \o post) : pre \in Paddings, t \in NA_VALUES, post \in Paddings }

ShortTexts == UNION { { Str(s) : s \in [1..k -> NormAlphabet] } : k \in 0..MaxLen }

NormInputs ==
    PaddedTokens \cup ShortTexts \cup
    { NoneV, NanV, InfV(1), IntV(0), IntV(1), FloatV(15), BoolV(FALSE), ListV(1),
      BytesV(1) }

NormInit ==
    /\ seen = <<>>
    /\ norm = [n |-> 0, in |-> NoneV, out |-> NoneV, again |-> NoneV]
    /\ FieldIdle /\ PropIdle /\ PipeIdle /\ CopyIdle /\ DomIdle

\* FuzzyField.preprocess(x), and preprocess applied to its result
Normalize(x) ==
    /\ norm.n < MaxNormCalls
    /\ \E out \in {preprocess(x)} :
          norm' = [n |-> norm.n + 1, in |-> x, out |-> out, again |-> preprocess(out)]
    /\ UNCHANGED <<seen, fieldOnly, propOnly, pipeOnly, copyOnly, domOnly>>

NormNext == \E x \in NormInputs : Normalize(x)

NormSpec == NormInit /\ [][NormNext]_vars

-----------------------------------------------------------------------------
(* DomainSpec: a Domain over a list that its caller changes between calls *)

MaxValidates == 2
MaxChanges == 2
MaxChoices == 3

Txt_a == <<"a">>
Txt_A == <<"A">>

\* the lists given to Domain.__init__ and the values appended later
DomInitChoices ==
    { <<>>, <<Str(Txt_a)>>, <<Str(Txt_a), Str(Txt_A)>>, <<Str(Txt_A), IntV(1)>>,
      <<IntV(1), FloatV(10)>>, <<FloatV(15), ListV(1)>> }
DomNewChoices == {Str(Txt_a), Str(Txt_A), IntV(1), ListV(1)}

DomInputs ==
    { NoneV, Str(Txt_a), Str(Txt_A), Str(Txt_d), Str(<<"1">>), Str(<<"1", ".", "0">>),
      Str(<<"1", ".", "5", "0">>), Str(<<"1", "E", "0">>), IntV(1), FloatV(10),
      BoolV(TRUE), ListV(1), ListV(2), BytesV(1) }

DomainInit ==
    /\ seen = <<>>
    /\ dom \in { Domain(ListChoices(items), cs, pt, TRUE, NoneV, FALSE, 0) :
                   items \in DomInitChoices, cs \in BOOLEAN, pt \in BOOLEAN }
    /\ dlast = [n |-> 0, changes |-> 0, op |-> "none", value |-> NoneV,
                out |-> Ok(NoneV), at |-> dom.choices.items,
                ctor |-> dom.choices.items]
    /\ FieldIdle /\ PropIdle /\ PipeIdle /\ CopyIdle /\ NormIdle

\* choices.append(v) by the caller, on the list the Domain was given
AddChoice(v) ==
    /\ dlast.changes < MaxChanges
    /\ Len(dom.choices.items) < MaxChoices
    /\ dom' = [dom EXCEPT !.choices.items = Append(@, v)]
    /\ dlast' = [dlast EXCEPT !.changes = @ + 1, !.op = "append", !.value = v]
    /\ UNCHANGED <<seen, fieldOnly, propOnly, pipeOnly, copyOnly, normOnly>>

\* del choices[i] by the caller
RemoveChoice(i) ==
    /\ dlast.changes < MaxChanges
    /\ dom' = [dom EXCEPT !.choices.items =
                   SubSeq(@, 1, i - 1) \o SubSeq(@, i + 1, Len(@))]
    /\ dlast' = [dlast EXCEPT !.changes = @ + 1, !.op = "del",
                                !.value = dom.choices.items[i]]
    /\ UNCHANGED <<seen, fieldOnly, propOnly, pipeOnly, copyOnly, normOnly>>

\* dom.validate(value): a passthrough Domain keeps the _choices_map it rebuilt
Validate(value) ==
    /\ dlast.n < MaxValidates
    /\ \E out \in {DomainValidate(dom, value)} :
          dlast' = [dlast EXCEPT !.n = @ + 1, !.op = "validate", !.value = value,
                                  !.out = out, !.at = dom.choices.items]
    /\ dom' = IF dom.passthrough THEN _parse_choices(dom) ELSE dom
    /\ UNCHANGED <<seen, fieldOnly, propOnly, pipeOnly, copyOnly, normOnly>>

DomainNext ==
    \/ \E v \in DomNewChoices : AddChoice(v)
    \/ \E i \in DOMAIN dom.choices.items : RemoveChoice(i)
    \/ \E value \in DomInputs : Validate(value)

DomainSpec == DomainInit /\ [][DomainNext]_vars

-----------------------------------------------------------------------------
(* Properties of FieldSpec *)

\* two validated values are the same value for the uniqueness check: equal as
\* set members when hashable, the same content when unhashable
SameValue(a, b) ==
    IF Hashable(a) /\ Hashable(b) THEN PyEq(a, b)
    ELSE ~Hashable(a) /\ ~Hashable(b) /\ a = b

\* C8: on a unique field, a parse whose validated value equals a value accepted
\* by an earlier parse raises DuplicateError (1 and 1.0 collide, unhashable
\* values collide on equal content), and a parse of a null input on a field
\* that is not required returns the default without raising, however often.
C8_DuplicateRaises ==
    (fld.unique /\ last.n > 0) =>
        /\ (/\ last.val.st = "ok" /\ last.val.v # NoneV
            /\ \E a \in last.before : SameValue(a, last.val.v))
              => last.out = Err("DuplicateError", last.val.v)
        /\ (preprocess(last.raw) = NoneV /\ ~fld.required)
              => last.out = Ok(fld.default)

\* the third call parses 1.0 after 1 was accepted, and is refused
C8_Witness ==
    /\ fld.unique /\ fld.variant = "Anything" /\ last.n = 3
    /\ last.raw = FloatV(10) /\ IntV(1) \in last.before
    /\ last.out.kind = "DuplicateError"

\* C9: the seen_values of a unique field never contain the field's default.
C9_DefaultNeverSeen ==
    fld.unique => ~PyIn(fld.default, seen[fld.seen])

\* C12: a parse of a raw input that preprocess turns into None gives
\* MissingFieldError on a required field and the default itself on any other,
\* whatever validate of the field's variant would make of None or of the
\* default, and leaves every seen_values as it was
C12_NullSkipsValidate ==
    [][(last'.n = last.n + 1 /\ preprocess(last'.raw) = NoneV) =>
          /\ last'.out = IF fld.required THEN Err("MissingFieldError", NoneV)
                         ELSE Ok(fld.default)
          /\ seen' = seen]_vars

\* a unique Domain returned its default for a null text although the default
\* is in its seen_values
C12_Witness ==
    /\ last.n > 1 /\ IsStr(last.raw) /\ preprocess(last.raw) = NoneV
    /\ fld.variant = "Domain" /\ fld.unique /\ ~fld.required
    /\ fld.default # NoneV /\ PyIn(fld.default, seen[fld.seen])
    /\ last.out = Ok(fld.default)

\* the truth value an input stands for: that of a token of yes and no in any
\* letter case, of a native boolean, of a number equal to 0 or 1 and of a
\* numeral text equal to 0 or 1; "none" for any other input
Truth(v) ==
    IF IsStr(v)
    THEN IF Upper(v.s) \in _BOOL_TRUE THEN "true"
         ELSE IF Upper(v.s) \in _BOOL_FALSE THEN "false"
         ELSE IF DecimalOfStr(v.s).k # "num" THEN "none"
         ELSE IF DecimalOfStr(v.s).coef = 0 THEN "false"
         ELSE IF /\ DecimalOfStr(v.s).sign = 1 /\ DecimalOfStr(v.s).exp <= 0
                 /\ DecimalOfStr(v.s).coef = Pow10(0 - DecimalOfStr(v.s).exp)
         THEN "true" ELSE "none"
    ELSE IF IsNumber(v) /\ Tenths(v) \in {0, 10}
    THEN IF Tenths(v) = 10 THEN "true" ELSE "false"
    ELSE "none"

\* C24: Boolean.validate gives every input that preprocess leaves non-null
\* exactly one outcome: True or False for the tokens of yes and no, the native
\* booleans and the numbers and numeral texts equal to 1 or 0;
\* MalformedFieldError for any other text or number, the float 1.5 and the
\* text 'inf' among them; FieldTypeError for an unhashable input and for an
\* input of any other type.
C24_BooleanClassifies ==
    (fld.variant = "Boolean" /\ last.n > 0 /\ preprocess(last.raw) # NoneV) =>
        last.val
          = IF Truth(preprocess(last.raw)) # "none"
            THEN Ok(BoolV(Truth(preprocess(last.raw)) = "true"))
            ELSE IF \/ IsStr(preprocess(last.raw)) \/ IsNumber(preprocess(last.raw))
                    \/ preprocess(last.raw).t = "inf"
            THEN Err("MalformedFieldError", preprocess(last.raw))
            ELSE Err("FieldTypeError", preprocess(last.raw))

\* C26: on an Integer field, and on a Boolean field, which falls back on
\* Integer, every raw input that spells a NaN, in any letter case, is None
\* after preprocess, so that no call of validate meets a NaN and fails the
\* assertion of Integer._num_converter; any other input of an Integer field
\* gives a whole int, a float infinity, MalformedFieldError or FieldTypeError.
C26_NoNaNValidated ==
    (fld.variant \in {"Integer", "Boolean"} /\ last.n > 0) =>
        /\ (IsStr(last.raw) /\ DecimalOfStr(last.raw.s).k = "nan")
              => preprocess(last.raw) = NoneV
        /\ last.val.st # "crash"
        /\ (fld.variant = "Integer" /\ preprocess(last.raw) # NoneV) =>
              \/ last.val.st = "ok" /\ last.val.v.t \in {"int", "bool", "inf"}
              \/ last.val.st = "err"
                   /\ last.val.kind \in {"MalformedFieldError", "FieldTypeError"}

-----------------------------------------------------------------------------
(* Properties of RegexSpec *)

\* the pattern matches the whole of the text s
FullMatch(pat, s) == Len(s) = Len(pat) /\ \A i \in 1..Len(pat) : AtomMatches(pat[i], s[i])

\* C25 as stated: a text is accepted only when the whole of it matches the
\* pattern; a text of which only a proper prefix or an inner part matches
\* fails with MalformedFieldError; an input that is no text fails with
\* FieldTypeError.
C25_FullMatch ==
    (last.n > 0 /\ preprocess(last.raw) # NoneV) =>
        last.val
          = IF ~IsStr(preprocess(last.raw)) THEN Err("FieldTypeError", preprocess(last.raw))
            ELSE IF FullMatch(fld.pattern, preprocess(last.raw).s)
            THEN Ok(preprocess(last.raw))
            ELSE Err("MalformedFieldError", preprocess(last.raw))

\* C25 amended: a text is accepted, and returned as it is, exactly when a
\* prefix of it, the whole text or less, matches the pattern; a text of which
\* no prefix matches, one with a match further inside included, fails with
\* MalformedFieldError carrying the text; an input that is no text fails with
\* FieldTypeError.
C25_PrefixMatch ==
    (last.n > 0 /\ preprocess(last.raw) # NoneV) =>
        last.val
          = IF ~IsStr(preprocess(last.raw)) THEN Err("FieldTypeError", preprocess(last.raw))
            ELSE IF \E k \in 0..Len(preprocess(last.raw).s) :
                       FullMatch(fld.pattern, SubSeq(preprocess(last.raw).s, 1, k))
            THEN Ok(preprocess(last.raw))
            ELSE Err("MalformedFieldError", preprocess(last.raw))

\* the pattern f\d has accepted the text f3x, of which the proper prefix f3
\* matches, and then refused the text xf3
C25_Witness ==
    /\ last.n = 2 /\ fld.pattern = <<"f", "\\d">>
    /\ Str(<<"f", "3", "x">>) \in last.before
    /\ last.raw = Str(<<"x", "f", "3">>)
    /\ last.out = Err("MalformedFieldError", last.raw)

-----------------------------------------------------------------------------
(* Properties of DecimalSpec *)

\* the text is a decimal literal: decimal.Decimal reads it as a finite number
IsLiteral(v) == IsStr(v) /\ DecimalOfStr(v.s).k = "num"

\* the decimal.Decimal a literal denotes
LiteralValue(v) ==
    With(DecimalOfStr(v.s), LAMBDA d : DecV(d.sign * d.coef, d.exp))

\* two decimals are the same number
NumEq(a, b) ==
    With(IF a.e < b.e THEN a.e ELSE b.e, LAMBDA m :
        a.n * Pow10(a.e - m) = b.n * Pow10(b.e - m))

\* C27 as stated: every text that is a decimal literal, with or without an
\* exponent and with or without digits before the point, validates to a
\* decimal equal in value to the literal. Violated: a literal with no digit
\* before the point and only zeros after it (.0, -.00, .0e1) is cut down to
\* a bare point, which decimal.Decimal refuses
C27_DecimalKeepsLiteral ==
    (last.n > 0 /\ IsLiteral(last.raw)) =>
        /\ last.val.st = "ok"
        /\ last.val.v.t = "decimal"
        /\ NumEq(last.val.v, LiteralValue(last.raw))

-----------------------------------------------------------------------------
(* Properties of PropSpec *)

\* the last call wrote a raw value that validated to a value
WroteValue == plast.op = "set" /\ plast.val.st = "ok" /\ plast.val.v # NoneV

\* C10 as stated: a value accepted through a write on one instance makes a
\* write of an equal value to the same property on any other instance fail
\* with DuplicateError, and two properties have different seen-sets.
C10_AnyInstance ==
    /\ props[<<"y">>].seen # props[<<"z">>].seen
    /\ (/\ WroteValue
        /\ \E a \in plast.before : a.inst # plast.inst /\ SameValue(a.v, plast.val.v))
          => plast.out = Err("DuplicateError", plast.val.v)

\* C10 amended: among the instances on which the property is not overridden
\* by an instance-level field, a write fails with DuplicateError exactly when
\* an equal value was accepted before through a write to the same property on
\* any such instance, of the host class or of its subclass; writes to another
\* property never count.
C10_SharedSeenSet ==
    /\ props[<<"y">>].seen # props[<<"z">>].seen
    /\ (WroteValue /\ plast.direct) =>
          (plast.out = Err("DuplicateError", plast.val.v)
             <=> \E a \in plast.before : a.direct /\ SameValue(a.v, plast.val.v))

\* a write on the subclass instance is refused for a value that an instance of
\* the host class wrote before
C10_Witness ==
    /\ WroteValue /\ plast.direct /\ plast.inst = "d1"
    /\ plast.out.kind = "DuplicateError"
    /\ \E a \in plast.before : a.direct /\ a.inst = "c1" /\ SameValue(a.v, plast.val.v)

\* the last call, the one that made plast', was on property nm of instance i
Called(op, i, nm) ==
    /\ plast'.n = plast.n + 1 /\ plast'.op = op
    /\ plast'.inst = i /\ plast'.name = nm

\* C14: a read of a property gives the value stored by the last successful
\* write since the last delete; with no value stored it gives the default of
\* a property that is not required and AttributeError (no MissingFieldError)
\* for a required one; a delete with no value stored gives AttributeError.
\* A stored value changes by a successful write and by a delete only.
C14_ReadAfterWrites ==
    [][\A i \in Instances, nm \in PropNames :
          /\ Called("get", i, nm) =>
                /\ plast'.out = IF store[i][nm] # AbsentV THEN Ok(store[i][nm])
                                ELSE IF ~props[nm].required THEN Ok(props[nm].default)
                                ELSE Crash("AttributeError")
                /\ store' = store
          /\ Called("delete", i, nm) =>
                /\ store' = [store EXCEPT ![i][nm] = AbsentV]
                /\ plast'.out = IF store[i][nm] = AbsentV THEN Crash("AttributeError")
                                ELSE Ok(NoneV)
          /\ Called("set", i, nm) =>
                store' = IF plast'.out.st = "ok"
                         THEN [store EXCEPT ![i][nm] = plast'.out.v] ELSE store
          /\ Called("setfield", i, nm) => store' = store]_vars

\* C15: a write of a FuzzyField object to a property of an instance stores no
\* value and leaves the class attributes, every seen_values and the overrides
\* of the other instances and properties as they were; from then on a raw
\* value written to that property of that instance is parsed by the object
\* written, and on any instance without an override by the class attribute
C15_OverrideOneInstance ==
    [][\A i \in Instances, nm \in PropNames :
          /\ Called("setfield", i, nm) =>
                /\ store' = store /\ props' = props
                /\ \A k \in DOMAIN seen : seen'[k] = seen[k]
                /\ override'[i][nm] # NoField
                /\ \A j \in Instances, m \in PropNames :
                      <<j, m>> # <<i, nm>> => override'[j][m] = override[j][m]
          /\ Called("set", i, nm) =>
                LET f == IF override[i][nm] = NoField THEN props[nm] ELSE override[i][nm]
                    res == parse(f, plast'.raw, SeenOf(f, seen))
                IN /\ plast'.out = res.out
                   /\ seen' = UpdateSeen(seen, f, res.seen)
                   /\ props' = props /\ override' = override]_vars

\* an instance with an override accepted a value that the class attribute,
\* which had accepted it from another instance, would have refused
C15_Witness ==
    /\ plast.op = "set" /\ ~plast.direct /\ plast.out.st = "ok" /\ plast.out.v # NoneV
    /\ override[plast.inst][plast.name] # NoField
    /\ PyIn(plast.out.v, seen[props[plast.name].seen])
    /\ \E j \in Instances \ {plast.inst} :
          override[j][plast.name] = NoField /\ store[j][plast.name] = plast.out.v

\* C29 as stated: no read of a property fails an assertion, and a read on
\* an instance of the subclass D gives what a read on an instance of the
\* host class C gives: the stored value, the default of a property that is
\* not required, AttributeError for a required one. Violated: on d1 the
\* owner passed to __get__ is D, not the class C that __set_name__ recorded,
\* and `assert owner is self.owner` fails
C29_ReadsNeverAssert ==
    (plast.n > 0 /\ plast.op = "get") =>
        /\ plast.out # Crash("AssertionError")
        /\ plast.out = IF store[plast.inst][plast.name] # AbsentV
                       THEN Ok(store[plast.inst][plast.name])
                       ELSE IF ~props[plast.name].required
                       THEN Ok(props[plast.name].default)
                       ELSE Crash("AttributeError")

-----------------------------------------------------------------------------
(* Properties of EffectSpec *)

\* the step is a direct parse, a write through a property
ParseStep == last'.n = last.n + 1
WriteStep == plast'.n = plast.n + 1 /\ plast'.op = "set"

\* what seen_values holds for a value: the value, or its pickle when the
\* value is unhashable
Entry(v) == IF Hashable(v) THEN v ELSE Pickle(v)

\* the heap h with the entry of v added to the seen_values of field f
Grown(h, f, v) == [h EXCEPT ![f.seen] = @ \cup {Entry(v)}]

\* the effect on seen_values of a call on field f that ended in out after
\* validate had returned val
SeenEffect(f, val, out) ==
    IF out.st = "ok" /\ f.unique /\ val.v # NoneV
    THEN /\ ~PyIn(Entry(val.v), seen[f.seen])
         /\ seen' = Grown(seen, f, val.v)
    ELSE seen' = seen

\* C28: a parse or a property write that fails with a ValidationError
\* changes no seen_values and no stored value of any instance; a parse or
\* write that succeeds adds to the seen_values of its own unique field
\* exactly the one value that validate returned, when that is not None, and
\* changes no seen_values otherwise; a write that succeeds changes the
\* stored value of its own instance and property only; no step removes
\* anything from any seen_values
C28_FailureKeepsState ==
    [][ /\ Len(seen') = Len(seen)
        /\ \A k \in 1..Len(seen) : seen[k] \subseteq seen'[k]
        /\ ParseStep =>
              /\ SeenEffect(fld, last'.val, last'.out)
              /\ store' = store
        /\ WriteStep =>
              /\ SeenEffect(props[plast'.name], plast'.val, plast'.out)
              /\ \A i \in Instances, nm \in PropNames :
                    (plast'.out.st # "ok" \/ i # plast'.inst \/ nm # plast'.name)
                        => store'[i][nm] = store[i][nm]
              /\ plast'.out.st = "ok" => store'[plast'.inst][plast'.name] = plast'.out.v
      ]_vars

\* on a unique Integer property: after an accepted write of 1 to c1.y, the
\* write of the text 1 to c2.y failed as a duplicate and left c2.y
\* uninitialised; seen_values holds the one accepted value
C28_Witness ==
    /\ plast.n = 2 /\ last.n = 0
    /\ fld.variant = "Integer" /\ fld.unique
    /\ seen[1] = {IntV(1)}
    /\ store["c1"][<<"y">>] = IntV(1) /\ store["c2"][<<"y">>] = AbsentV
    /\ plast.inst = "c2" /\ plast.raw = Str(<<"1">>)
    /\ plast.out = Err("DuplicateError", IntV(1))

-----------------------------------------------------------------------------
(* Properties of PipeSpec *)

Pipes == DOMAIN conf

\* the entries of a history h of pipeline p that belong to its k-th iteration
InIter(h, k) == SelectSeq(h, LAMBDA e : e.iter = k)

\* the errors dispatched for the record with the drawn entry d
ErrorsOf(p, d) == SelectSeq(log[p], LAMBDA e : e.iter = d.iter /\ e.idx = d.idx)

\* the fates of a record that stays inside the loop
Handled == {"prehook", "blank", "required", "posthook", "yielded"}

\* the fields of the record of d were parsed and field i did not fail
Passed(d, i) ==
    /\ d.fate \notin {"prehook", "blank"} /\ d.parsed >= i
    /\ \A k \in 1..Len(d.failed) : d.failed[k] # i

\* field i of the record of d failed with an error of the given kind
FailedWith(p, d, i, kind) ==
    \E k \in 1..Len(d.failed) :
        d.failed[k] = i /\ ErrorsOf(p, d)[k].exc.kind = kind

\* C1: under a policy that neither aborts nor raises from the handler, every
\* record that reaches the fields has all its declared fields parsed, one error
\* reported per field whose parse failed, is not yielded when a required field
\* failed, and otherwise goes on to the post-hook carrying the default of every
\* failed field under its output key.
C1_AllFailuresReported ==
    \A p \in Pipes : NonAbort(conf[p]) =>
        \A j \in 1..Len(drawn[p]) :
            drawn[p][j].fate \notin {"prehook", "blank"} =>
                /\ drawn[p][j].parsed = Len(rd[p].fields)
                /\ Len(ErrorsOf(p, drawn[p][j])) = Len(drawn[p][j].failed)
                /\ IF \E i \in 1..Len(drawn[p][j].failed) :
                         rd[p].fields[drawn[p][j].failed[i]].required
                   THEN drawn[p][j].fate = "required"
                   ELSE /\ drawn[p][j].fate \in {"posthook", "yielded"}
                        /\ \A i \in 1..Len(drawn[p][j].failed) :
                              RowGet(drawn[p][j].out,
                                     NameMapGet(conf[p].name_map,
                                                rd[p].fields[drawn[p][j].failed[i]].name))
                                = rd[p].fields[drawn[p][j].failed[i]].default

C6_NoCrash ==
    \A p \in Pipes : NonAbort(conf[p]) =>
        /\ gen[p].pc \in {"none", "new", "suspended", "done"}
        /\ \A j \in 1..Len(drawn[p]) : drawn[p][j].fate \in Handled

\* pipeline p takes a step of its generator
Steps(p) ==
    /\ gen[p].pc \in {"new", "suspended"}
    /\ gen'[p] # gen[p]
    /\ rd'[p].iters = rd[p].iters

C5_AbortOnFirst ==
    \A p \in Pipes : conf[p].errors = "raise" =>
        \A k \in 1..rd[p].iters :
            /\ Len(InIter(log[p], k)) <= 1
            /\ \A j \in 1..Len(InIter(drawn[p], k)) :
                 /\ InIter(drawn[p], k)[j].failed # <<>> =>
                       /\ j = Len(InIter(drawn[p], k))
                       /\ InIter(drawn[p], k)[j].fate = "raised"
                       /\ Len(InIter(drawn[p], k)[j].failed) = 1
                       /\ InIter(drawn[p], k)[j].parsed = InIter(drawn[p], k)[j].failed[1]
                       /\ Len(InIter(log[p], k)) = 1
                       /\ InIter(log[p], k)[1].how = "raise"
                       /\ InIter(log[p], k)[1].idx = InIter(drawn[p], k)[j].idx
                       /\ InIter(log[p], k)[1].exc.kind = InIter(drawn[p], k)[j].exc
                       /\ InIter(log[p], k)[1].exc.name
                            = rd[p].fields[InIter(drawn[p], k)[j].failed[1]].name
                       /\ k = rd[p].iters => gen[p].pc = "raised"
                 /\ (\E i \in 1..Len(InIter(yielded[p], k)) :
                        InIter(yielded[p], k)[i].idx = InIter(drawn[p], k)[j].idx)
                    <=> /\ InIter(drawn[p], k)[j].parsed = Len(rd[p].fields)
                        /\ InIter(drawn[p], k)[j].failed = <<>>
                        /\ InIter(drawn[p], k)[j].exc = ""
                        /\ InIter(drawn[p], k)[j].idx \notin conf[p].postskip

\* the first record was yielded, the second raised from its first field
C5_Witness ==
    \E p \in Pipes :
        /\ conf[p].errors = "raise" /\ gen[p].pc = "raised" /\ rd[p].iters = 1
        /\ Len(yielded[p]) = 1 /\ yielded[p][1].idx = 0
        /\ rd[p].record_num = 1
        /\ Len(log[p]) = 1 /\ log[p][1].exc.kind = "MissingFieldError"
        /\ drawn[p][2].parsed = 1

\* C7: every ValidationError raised by a field in a pipeline is dispatched,
\* under every policy, carrying the record number of its record and, over a
\* source that has one, the line number of the source; its prefix reads
\* 'At line N: ' with a line number and 'At record N: ' without, then
\* 'Field F: '. The error of a parse called on a field directly has no
\* position: its prefix is 'Field F: ' alone.
C7_Annotated ==
    /\ \A p \in Pipes :
          /\ \A j \in 1..Len(log[p]) :
                /\ log[p][j].exc.record_num = <<log[p][j].idx>>
                /\ log[p][j].exc.line_num
                     = IF conf[p].src = "csv" THEN <<LineNum(log[p][j].srcpos)>> ELSE <<>>
                /\ log[p][j].text
                     = [at |-> IF conf[p].src = "csv" THEN "At line" ELSE "At record",
                        n |-> IF conf[p].src = "csv" THEN <<LineNum(log[p][j].srcpos)>>
                              ELSE <<log[p][j].idx>>,
                        field |-> log[p][j].exc.name]
                /\ log[p][j].exc.name \in {rd[p].fields[i].name : i \in 1..Len(rd[p].fields)}
                /\ log[p][j].how = CASE conf[p].errors = "raise" -> "raise"
                                     [] conf[p].errors = "warning" -> "log"
                                     [] OTHER -> "call"
          /\ \A j \in 1..Len(drawn[p]) :
                Len(ErrorsOf(p, drawn[p][j])) = Len(drawn[p][j].failed)
    /\ tlast.out.st = "err" =>
          tlast.text = <<[at |-> "", n |-> <<>>, field |-> tmpl[tlast.field].k]>>

\* the second record of a source with line numbers fails on field a and on
\* field c: both errors are logged at line 3
C7_Witness ==
    \E p \in Pipes :
        /\ conf[p].src = "csv" /\ conf[p].errors = "warning" /\ Len(log[p]) = 2
        /\ log[p][1].text = [at |-> "At line", n |-> <<3>>, field |-> FieldA]
        /\ log[p][2].text = [at |-> "At line", n |-> <<3>>, field |-> FieldC]
        /\ log[p][2].exc.record_num = <<1>>

\* the entry of history h at place j comes no later than the one at place k:
\* in an earlier iteration, or in the same one for a record drawn no later
InOrder(h, j, k) ==
    \/ h[j].iter < h[k].iter
    \/ h[j].iter = h[k].iter /\ h[j].idx <= h[k].idx

\* C20: when errors is a callable, it is called once for every field whose
\* parse raised a ValidationError, with the error carrying the position of
\* its record, the calls following the order of the records and, within a
\* record, the order of the fields; after a call that returns the next field
\* of the record is parsed and the iteration goes on; an exception raised by
\* the callable leaves the generator, which processes nothing more.
C20_HandlerCalls ==
    \A p \in Pipes : conf[p].errors \in {"collect", "strict"} =>
        /\ \A j \in 1..Len(log[p]) :
              /\ log[p][j].how = "call"
              /\ log[p][j].exc.record_num = <<log[p][j].idx>>
              /\ log[p][j].exc.line_num
                   = IF conf[p].src = "csv" THEN <<LineNum(log[p][j].srcpos)>> ELSE <<>>
              /\ \A k \in j..Len(log[p]) : InOrder(log[p], j, k)
              /\ \E d \in 1..Len(drawn[p]) :
                    drawn[p][d].iter = log[p][j].iter /\ drawn[p][d].idx = log[p][j].idx
        /\ \A j \in 1..Len(drawn[p]) :
              /\ Len(ErrorsOf(p, drawn[p][j])) = Len(drawn[p][j].failed)
              /\ \A i \in 1..Len(drawn[p][j].failed) :
                    /\ ErrorsOf(p, drawn[p][j])[i].exc.name
                         = rd[p].fields[drawn[p][j].failed[i]].name
                    /\ i > 1 => drawn[p][j].failed[i - 1] < drawn[p][j].failed[i]
                    /\ IF conf[p].errors = "collect"
                       THEN /\ drawn[p][j].fate # "handler"
                            /\ \/ drawn[p][j].parsed > drawn[p][j].failed[i]
                               \/ drawn[p][j].failed[i] = Len(rd[p].fields)
                       ELSE /\ drawn[p][j].fate = "handler"
                            /\ drawn[p][j].failed = <<drawn[p][j].parsed>>
                            /\ drawn[p][j].exc = ErrorsOf(p, drawn[p][j])[1].exc.kind
                            /\ \A k \in 1..Len(drawn[p]) :
                                  drawn[p][k].iter = drawn[p][j].iter
                                     => drawn[p][k].idx <= drawn[p][j].idx
                            /\ drawn[p][j].iter = rd[p].iters => gen[p].pc = "handler"
        /\ conf[p].errors = "collect" => gen[p].pc # "handler"

\* the callable was called for field a and then for field c of the first
\* record, returned both times, and the second record was yielded
C20_Witness ==
    \E p \in Pipes :
        /\ conf[p].errors = "collect" /\ Len(log[p]) = 2 /\ rd[p].iters = 1
        /\ log[p][1].idx = 0 /\ log[p][1].exc.name = FieldA
        /\ log[p][2].idx = 0 /\ log[p][2].exc.name = FieldC
        /\ drawn[p][1].fate = "required" /\ drawn[p][1].parsed = 3
        /\ Len(yielded[p]) = 1 /\ yielded[p][1].idx = 1

\* the records of pipeline p yielded for the drawn entry d
YieldOf(p, d) == SelectSeq(yielded[p], LAMBDA e : e.iter = d.iter /\ e.idx = d.idx)

\* the values the unique field a of pipeline p has accepted in the records
\* drawn so far
TakenByA(p) ==
    { RowGet(drawn[p][k].out, NameMapGet(conf[p].name_map, FieldA)) :
        k \in {m \in 1..Len(drawn[p]) : Passed(drawn[p][m], 1)} }

\* C21: a record for which the pre-hook returns None is skipped before any
\* field is parsed: no error is dispatched for it, no seen_values changes
\* and nothing is yielded; the post-hook gets the records in which no required
\* field failed, and a record for which it returns None is not yielded; every
\* other such record is yielded, once, as the post-hook returned it.
C21_Hooks ==
    \A p \in Pipes :
        /\ \A j \in 1..Len(drawn[p]) :
              /\ drawn[p][j].idx \in conf[p].preskip <=> drawn[p][j].fate = "prehook"
              /\ drawn[p][j].fate = "prehook" =>
                    /\ drawn[p][j].parsed = 0 /\ drawn[p][j].failed = <<>>
                    /\ drawn[p][j].out = <<>>
                    /\ ErrorsOf(p, drawn[p][j]) = <<>>
                    /\ YieldOf(p, drawn[p][j]) = <<>>
              /\ drawn[p][j].fate = "posthook" =>
                    /\ drawn[p][j].idx \in conf[p].postskip
                    /\ drawn[p][j].parsed = Len(rd[p].fields)
                    /\ \A i \in 1..Len(drawn[p][j].failed) :
                          ~rd[p].fields[drawn[p][j].failed[i]].required
                    /\ YieldOf(p, drawn[p][j]) = <<>>
              /\ drawn[p][j].fate = "required" =>
                    /\ \E i \in 1..Len(drawn[p][j].failed) :
                          rd[p].fields[drawn[p][j].failed[i]].required
                    /\ YieldOf(p, drawn[p][j]) = <<>>
              /\ drawn[p][j].fate = "yielded" =>
                    /\ drawn[p][j].idx \notin conf[p].postskip
                    /\ \A i \in 1..Len(drawn[p][j].failed) :
                          ~rd[p].fields[drawn[p][j].failed[i]].required
                    /\ YieldOf(p, drawn[p][j])
                         = << [iter |-> drawn[p][j].iter, idx |-> drawn[p][j].idx,
                               out |-> IF conf[p].postskip = {} THEN drawn[p][j].out
                                       ELSE DictSet(drawn[p][j].out, HookKey,
                                                    IntV(drawn[p][j].idx))] >>
        /\ \A k \in 1..Len(yielded[p]) :
              \E j \in 1..Len(drawn[p]) :
                  /\ drawn[p][j].fate = "yielded"
                  /\ drawn[p][j].iter = yielded[p][k].iter
                  /\ drawn[p][j].idx = yielded[p][k].idx
        /\ rd[p].built => seen[rd[p].fields[1].seen] = TakenByA(p)

\* the pre-hook skipped the first record and the post-hook discarded the
\* second, whose value for the unique field a stays in seen_values: nothing
\* was reported and nothing yielded
C21_Witness ==
    \E p \in Pipes :
        /\ Len(drawn[p]) = 2 /\ gen[p].pc = "done" /\ rd[p].iters = 1
        /\ drawn[p][1].fate = "prehook" /\ drawn[p][2].fate = "posthook"
        /\ drawn[p][2].parsed = 3
        /\ seen[rd[p].fields[1].seen] = {Str(Txt_x)}
        /\ log[p] = <<>> /\ yielded[p] = <<>>

\* every cell of a source record, the one of the None key apart, is None or a
\* text of whitespace only
AllCellsEmpty(row) ==
    \A i \in 1..Len(row) :
        row[i].k # NoneV =>
            \/ row[i].v = NoneV
            \/ IsStr(row[i].v) /\ \A k \in 1..Len(row[i].v.s) : row[i].v.s[k] \in Whitespace

\* C22: a source record that the pre-hook lets through and whose cells, the
\* one of the None key apart, are all None or whitespace-only texts is skipped
\* with no field parsed: no error is dispatched, whatever fields are required,
\* no seen_values changes and nothing is yielded; record_num counts the
\* record like any other.
C22_BlankSkipped ==
    \A p \in Pipes :
        /\ \A j \in 1..Len(drawn[p]) :
              /\ (/\ drawn[p][j].fate # "prehook"
                  /\ AllCellsEmpty(conf[p].rows[drawn[p][j].src + 1])) =>
                    /\ drawn[p][j].fate = "blank"
                    /\ drawn[p][j].parsed = 0 /\ drawn[p][j].failed = <<>>
                    /\ drawn[p][j].out = <<>>
                    /\ ErrorsOf(p, drawn[p][j]) = <<>>
                    /\ YieldOf(p, drawn[p][j]) = <<>>
              /\ drawn[p][j].idx
                   = IF j > 1 /\ drawn[p][j - 1].iter = drawn[p][j].iter
                     THEN drawn[p][j - 1].idx + 1 ELSE 0
              /\ (j = Len(drawn[p]) /\ drawn[p][j].iter = rd[p].iters)
                    => rd[p].record_num = drawn[p][j].idx
        /\ rd[p].built => seen[rd[p].fields[1].seen] = TakenByA(p)

\* under the policy 'raise' and with the required field a, a first record of
\* blanks, with a value in the column that has no header, was skipped without
\* an error and the second record was yielded as record 1
C22_Witness ==
    \E p \in Pipes :
        /\ conf[p].errors = "raise"
        /\ Len(drawn[p]) = 2 /\ drawn[p][1].fate = "blank"
        /\ conf[p].rows[1] = RowBlank
        /\ rd[p].fields[1].required
        /\ log[p] = <<>> /\ seen[rd[p].fields[1].seen] = {Str(Txt_x)}
        /\ Len(yielded[p]) = 1 /\ yielded[p][1].idx = 1 /\ rd[p].record_num = 1

\* the number of records the source of pipeline p has been asked for and has
\* given: to the running iteration for a list, altogether for a one-shot
\* source
Requested(p) == IF conf[p].src = "list" THEN gen[p].pos ELSE rd[p].srcpos

\* C23: the records are taken from the source one by one and in its order; a
\* record is drawn only after the one before it got all its fields parsed and
\* its errors dispatched; while the generator is suspended on a yield the
\* record yielded is the last one requested from the source; a step of the
\* generator, which only a request of the caller starts, yields at most one
\* record and draws nothing after the record it yields; the records yielded
\* and the errors dispatched follow the order of the source.
C23_PullBased ==
    /\ [](\A p \in Pipes :
            /\ \A j \in 1..Len(drawn[p]) :
                  /\ drawn[p][j].src
                       = IF j > 1 /\ (conf[p].src = "csv"
                                        \/ drawn[p][j - 1].iter = drawn[p][j].iter)
                         THEN drawn[p][j - 1].src + 1 ELSE 0
                  /\ (j < Len(drawn[p]) /\ drawn[p][j + 1].iter = drawn[p][j].iter) =>
                        /\ drawn[p][j].fate \in Handled
                        /\ drawn[p][j].fate \notin {"prehook", "blank"} =>
                              /\ drawn[p][j].parsed = Len(rd[p].fields)
                              /\ Len(ErrorsOf(p, drawn[p][j])) = Len(drawn[p][j].failed)
            /\ (drawn[p] # <<>> /\ drawn[p][Len(drawn[p])].iter = rd[p].iters)
                  => Requested(p) = drawn[p][Len(drawn[p])].src + 1
            /\ gen[p].pc = "new" => (conf[p].src = "list" => Requested(p) = 0)
            /\ gen[p].pc = "suspended" =>
                  /\ drawn[p] # <<>> /\ yielded[p] # <<>>
                  /\ drawn[p][Len(drawn[p])].fate = "yielded"
                  /\ drawn[p][Len(drawn[p])].iter = rd[p].iters
                  /\ YieldOf(p, drawn[p][Len(drawn[p])]) = <<yielded[p][Len(yielded[p])]>>
            /\ \A j \in 1..Len(yielded[p]) : \A k \in (j + 1)..Len(yielded[p]) :
                  InOrder(yielded[p], j, k) /\ ~InOrder(yielded[p], k, j)
            /\ \A j \in 1..Len(log[p]) : \A k \in j..Len(log[p]) : InOrder(log[p], j, k))
    /\ [][\A p \in Pipes :
            /\ Len(yielded'[p]) <= Len(yielded[p]) + 1
            /\ (drawn'[p] # drawn[p] \/ yielded'[p] # yielded[p] \/ log'[p] # log[p])
                  => Steps(p)
            /\ Len(drawn'[p]) >= Len(drawn[p])
            /\ \A j \in (Len(drawn[p]) + 1)..Len(drawn'[p]) :
                  drawn'[p][j].fate = "yielded" =>
                      j = Len(drawn'[p]) /\ Len(yielded'[p]) = Len(yielded[p]) + 1]_vars

\* over a one-shot source of two records the generator is suspended on the
\* yield of the first record: one record was requested from the source, the
\* second is still in it
C23_Witness ==
    \E p \in Pipes :
        /\ conf[p].src = "csv" /\ Len(conf[p].rows) = 2 /\ gen[p].pc = "suspended"
        /\ Len(drawn[p]) = 1 /\ Len(yielded[p]) = 1 /\ rd[p].srcpos = 1
        /\ rd[p].record_num = 0

\* the cell of a source record in the column whose header, surrounding
\* whitespace apart, is name; None when the record has no such column
CellOf(row, name) ==
    IF \E i \in 1..Len(row) : IsStr(row[i].k) /\ Strip(row[i].k.s) = name
    THEN row[CHOOSE i \in 1..Len(row) :
                 /\ IsStr(row[i].k) /\ Strip(row[i].k.s) = name
                 /\ \A j \in (i + 1)..Len(row) :
                       ~(IsStr(row[j].k) /\ Strip(row[j].k.s) = name)].v
    ELSE NoneV

\* the output name of field i of pipeline p
OutName(p, i) ==
    IF rd[p].fields[i].name \in DOMAIN conf[p].name_map
    THEN conf[p].name_map[rd[p].fields[i].name] ELSE rd[p].fields[i].name

\* C30: a record handed to the post-hook has one key for every declared
\* field, its output name, and no other key: no undeclared column and no None
\* key of the source record; the value under the key is what the field made of
\* the cell found under the field's name once the headers are stripped, with
\* None for a column the record does not have, or the field's default when
\* its parse failed; a field fails exactly when the parse of that cell does.
C30_OneKeyPerField ==
    \A p \in Pipes : \A j \in 1..Len(drawn[p]) :
        /\ drawn[p][j].fate \in {"required", "posthook", "yielded"} =>
              \A i \in 1..Len(rd[p].fields) :
                  LET r == parse(rd[p].fields[i],
                                 CellOf(conf[p].rows[drawn[p][j].src + 1],
                                        rd[p].fields[i].name), {}).out
                  IN IF r.st = "ok"
                     THEN \/ Passed(drawn[p][j], i)
                          \/ FailedWith(p, drawn[p][j], i, "DuplicateError")
                     ELSE FailedWith(p, drawn[p][j], i, r.kind)
        /\ drawn[p][j].fate \in {"posthook", "yielded"} =>
              /\ Len(drawn[p][j].out) = Len(rd[p].fields)
              /\ \A i \in 1..Len(rd[p].fields) :
                    /\ Cardinality({k \in 1..Len(drawn[p][j].out) :
                                      drawn[p][j].out[k].k = OutName(p, i)}) = 1
                    /\ RowGet(drawn[p][j].out, OutName(p, i))
                         = IF Passed(drawn[p][j], i)
                           THEN parse(rd[p].fields[i],
                                      CellOf(conf[p].rows[drawn[p][j].src + 1],
                                             rd[p].fields[i].name), {}).out.v
                           ELSE rd[p].fields[i].default

\* a record with the header ' a ', a None key and an undeclared column, and
\* without the column c, was yielded under a rename of a to id with the keys
\* id, n and c: n carries the default of the failed field, c the default of
\* the absent cell
C30_Witness ==
    \E p \in Pipes :
        /\ conf[p].name_map # <<>> /\ Len(yielded[p]) = 1 /\ Len(drawn[p]) = 1
        /\ conf[p].rows[1] = RowPadded
        /\ yielded[p][1].out
             = << Cell(<<"i", "d">>, Str(Txt_x)), Cell(FieldN, NanV),
                  Cell(FieldC, Str(Txt_d)) >>
        /\ Len(log[p]) = 1 /\ log[p][1].exc.name = FieldN

-----------------------------------------------------------------------------
(* Properties of TwoPipeSpec *)

\* the seen-set ids of the class-level fields and of the fields given to the
\* constructors
TemplateSets ==
    {tmpl[i].v.seen : i \in 1..Len(tmpl)} \cup {ctorf[i].v.seen : i \in 1..Len(ctorf)}

\* the seen-set ids of the unique fields of pipeline p
OwnSets(p) ==
    {rd[p].fields[i].seen : i \in {j \in 1..Len(rd[p].fields) : rd[p].fields[j].unique}}

\* a record of pipeline p drawn before the record of the error e accepted an
\* equal value for the field of e
AcceptedBefore(p, e) ==
    \E j \in 1..Len(drawn[p]) :
        /\ drawn[p][j].iter < e.iter
              \/ (drawn[p][j].iter = e.iter /\ drawn[p][j].idx < e.idx)
        /\ \E i \in 1..Len(drawn[p][j].out) :
              /\ drawn[p][j].out[i].k = e.exc.name
              /\ SameValue(drawn[p][j].out[i].v, e.exc.value)

\* C4: the unique fields of a pipeline have seen-sets of their own, shared
\* neither with the templates nor with another pipeline; a DuplicateError in
\* a pipeline always repeats a value the same pipeline accepted before; and no
\* step of an iteration changes a template's seen-set.
C4_OwnCopies ==
    /\ [](\A p \in Pipes :
            /\ rd[p].built =>
                  /\ OwnSets(p) \cap TemplateSets = {}
                  /\ \A q \in Pipes \ {p} : OwnSets(p) \cap OwnSets(q) = {}
                  /\ Len(rd[p].fields) = Len(tmpl) + Len(ctorf)
            /\ \A j \in 1..Len(log[p]) :
                  log[p][j].exc.kind = "DuplicateError" => AcceptedBefore(p, log[p][j]))
    /\ [][\A p \in Pipes :
            Steps(p) => \A k \in TemplateSets \ {0} : seen'[k] = seen[k]]_vars

\* both pipelines have accepted the value 1 for the unique field u and x for the
\* unique field a, which the class-level field a has accepted too, and no
\* error was reported
C4_Witness ==
    /\ yielded[1] # <<>> /\ yielded[2] # <<>>
    /\ RowGet(yielded[1][1].out, FieldU) = IntV(1)
    /\ RowGet(yielded[2][1].out, FieldU) = IntV(1)
    /\ RowGet(yielded[1][1].out, FieldA) = Str(Txt_x)
    /\ RowGet(yielded[2][1].out, FieldA) = Str(Txt_x)
    /\ seen[1] = {Str(Txt_x)}
    /\ log[1] = <<>> /\ log[2] = <<>>

-----------------------------------------------------------------------------
(* Properties of XrefSpec *)

\* the cell of field name in the source record of the drawn entry d, as
\* preprocess leaves it
RawOf(p, d, name) ==
    preprocess(RowGet(StripHeaders(PopNone(conf[p].rows[d.src + 1])), name))

\* the values field a has accepted in the records of pipeline p drawn up to
\* the j-th, in the iterations iters
AcceptedByA(p, j, iters) ==
    { RowGet(drawn[p][k].out, FieldA) :
        k \in {m \in 1..j : drawn[p][m].iter \in iters /\ Passed(drawn[p][m], 1)} }

\* C18: in a pipeline with the unique field a and, after it, the passthrough
\* Domain field b over the seen_values of a, field b accepts in a record every
\* value that a has accepted in that record or in an earlier record of the
\* iteration, and fails with DomainError on every value that a has not
\* accepted so far
C18_LiveCrossReference ==
    \A p \in Pipes : \A j \in 1..Len(drawn[p]) :
        (drawn[p][j].parsed = 2 /\ RawOf(p, drawn[p][j], FieldB) # NoneV) =>
            /\ PyIn(RawOf(p, drawn[p][j], FieldB), AcceptedByA(p, j, {drawn[p][j].iter}))
                  => /\ Passed(drawn[p][j], 2)
                     /\ RowGet(drawn[p][j].out, FieldB) = RawOf(p, drawn[p][j], FieldB)
            /\ ~PyIn(RawOf(p, drawn[p][j], FieldB), AcceptedByA(p, j, 1..MaxIters + 1))
                  => FailedWith(p, drawn[p][j], 2, "DomainError")

\* C19: a value that the unique field a of a pipeline has accepted is in its
\* seen_values whatever became of the record (discarded for a required field,
\* discarded by the post-hook, yielded); every later record of the pipeline
\* that carries an equal value for a fails with DuplicateError; and no
\* seen_values ever loses a value
C19_SeenSurvivesDiscard ==
    /\ [](\A p \in Pipes : \A j \in 1..Len(drawn[p]) :
             Passed(drawn[p][j], 1) =>
                /\ PyIn(RowGet(drawn[p][j].out, FieldA), seen[rd[p].fields[1].seen])
                /\ \A k \in (j + 1)..Len(drawn[p]) :
                      (/\ drawn[p][k].fate \notin {"prehook", "blank"}
                       /\ Validated(rd[p].fields[1], RawOf(p, drawn[p][k], FieldA))
                            = Ok(RowGet(drawn[p][j].out, FieldA)))
                        => FailedWith(p, drawn[p][k], 1, "DuplicateError"))
    /\ [][\A k \in DOMAIN seen : seen[k] \subseteq seen'[k]]_vars

\* the first record was discarded for its required field b after field a
\* had accepted x, and the second record, with x again, failed on field a
\* with DuplicateError
C19_Witness ==
    \E p \in Pipes :
        /\ Len(drawn[p]) = 2 /\ drawn[p][1].fate = "required" /\ drawn[p][2].iter = 1
        /\ Passed(drawn[p][1], 1) /\ RowGet(drawn[p][1].out, FieldA) = Str(Txt_x)
        /\ FailedWith(p, drawn[p][1], 2, "MissingFieldError")
        /\ FailedWith(p, drawn[p][2], 1, "DuplicateError")
        /\ yielded[p] = <<>>

-----------------------------------------------------------------------------
(* Properties of CopySpec *)

\* the settings of a field that copy carries over
Settings(f) == <<f.variant, f.required, f.default, f.unique, f.name, f.owner>>

\* C11: copy returns a new Field object of the same variant with equal
\* settings and leaves the existing objects as they were; when the field is
\* unique the copy's seen_values is a set of its own and empty, every existing
\* seen_values keeps its content, and a parse on one Field changes only the
\* seen_values of that Field, never the one of another Field
C11_CopyIndependent ==
    /\ clast.op = "copy" =>
          /\ clast.new \notin DOMAIN clast.objs
          /\ clast.new \in DOMAIN objs
          /\ Settings(objs[clast.new]) = Settings(clast.objs[clast.obj])
          /\ \A j \in DOMAIN clast.objs : objs[j] = clast.objs[j]
          /\ \A k \in DOMAIN clast.before : seen[k] = clast.before[k]
          /\ objs[clast.new].unique =>
                /\ objs[clast.new].seen # objs[clast.obj].seen
                /\ seen[objs[clast.new].seen] = {}
    /\ clast.op = "parse" =>
          \A j \in DOMAIN objs :
              j # clast.obj /\ objs[j].unique =>
                  seen[objs[j].seen] = clast.before[objs[j].seen]

\* a copy of a unique field accepts a value that its original has accepted
\* before the copy was made
C11_Witness ==
    /\ clast.op = "parse" /\ clast.obj > 1 /\ objs[1].unique
    /\ clast.out.st = "ok" /\ clast.out.v # objs[1].default
    /\ PyIn(clast.out.v, seen[objs[1].seen])
    /\ PyIn(clast.out.v, seen[objs[clast.obj].seen])
    /\ ~PyIn(clast.out.v, clast.before[objs[clast.obj].seen])

-----------------------------------------------------------------------------
(* Properties of NormSpec *)

\* C13: preprocess applied to its own result gives that result again, and
\* every text of NA_VALUES, bare or between whitespace, gives None
C13_Idempotent ==
    norm.n > 0 =>
        /\ norm.again = norm.out
        /\ norm.in \in PaddedTokens => norm.out = NoneV

\* a text of NA_VALUES between whitespace was given and None came out
C13_Witness ==
    /\ norm.n > 0
    /\ norm.in = Str(<<"\t", " ">> \o <<"N", "/", "A">> \o <<"\r", "\n">>)
    /\ norm.out = NoneV /\ norm.again = NoneV

-----------------------------------------------------------------------------
(* Properties of DomainSpec *)

\* the choices a validate call answers for: the items of the list when the
\* call was made for a passthrough Domain, those it had at construction for
\* any other
Consulted == IF dom.passthrough THEN dlast.at ELSE dlast.ctor

\* a text that differs from the text c in letter case at most
SameButCase(value, c) == IsStr(value) /\ IsStr(c) /\ Lower(value.s) = Lower(c.s)

\* a text that spells a number equal to the number c
SpellsNumber(value, c) ==
    /\ IsStr(value) /\ IsPyNumber(c)
    /\ FloatValidate(value).st = "ok" /\ PyEq(FloatValidate(value).v, c)

\* C16: validate fails with DomainError or returns one of the choices as it
\* is stored; an input equal to a choice gives a choice equal to it, a text
\* that differs from a choice only in letter case gives, on a case-insensitive
\* Domain, a choice with those letters, and a text that spells a number equal
\* to a numeric choice gives a choice equal to that number
C16_ReturnsStoredChoice ==
    dlast.op = "validate" =>
        LET value == dlast.value
            out == dlast.out
            Stored(c) == \E i \in DOMAIN Consulted : Consulted[i] = c
        IN /\ \/ out = Err("DomainError", value)
              \/ out.st = "ok" /\ Stored(out.v)
           /\ \A i \in DOMAIN Consulted :
                 /\ PyEq(value, Consulted[i]) => out.st = "ok" /\ PyEq(out.v, value)
                 /\ ~dom.case_sensitive /\ SameButCase(value, Consulted[i]) =>
                        out.st = "ok" /\ SameButCase(value, out.v)
                 /\ SpellsNumber(value, Consulted[i]) =>
                        out.st = "ok" /\ (SpellsNumber(value, out.v) \/ out.v = value)

\* a value matches a choice when they are equal, when they are texts that
\* differ in letter case only and the Domain ignores case, when the value is
\* a text that spells a number equal to the choice, or when the value is the
\* bytes that stand for an unhashable choice in the lookup map
Matches(value, items) ==
    \E i \in DOMAIN items :
        \/ PyEq(value, items[i])
        \/ ~dom.case_sensitive /\ SameButCase(value, items[i])
        \/ SpellsNumber(value, items[i])
        \/ ~Hashable(items[i]) /\ value = Pickle(items[i])

=============================================================================
